---- MODULE Spec2Model ----
(***************************************************************************)
(* huntflow-base-metrics: the request-observation middlewares of the two   *)
(* generations (base_metrics.py; web_frameworks/{fastapi,aiohttp,          *)
(* litestar}.py), the metrics context and the metric collectors they       *)
(* write to.                                                               *)
(*                                                                         *)
(* One behaviour is one process serving one application through one        *)
(* adapter (the variable `adapter`, fixed by Init).  A middleware call is  *)
(* a coroutine with a single suspension point, the forwarded call into the *)
(* application; the code before and the code after that await are one      *)
(* atomic step each (cooperative scheduling on one event loop).            *)
(***************************************************************************)
EXTENDS Integers, Sequences, FiniteSets, TLC

\* ------------------------------------------------------------------ bounds
MaxRequests == 2
MaxTime == 2
MaxBodyEvents == 2
MaxTasks == 2
MaxWrites == 6
MaxCycles == 2
MaxWrapperCalls == 2
MaxRecords == 2
MaxMiddlewares == 2

\* --------------------------------------------------------------- constants
HTTP_500_INTERNAL_SERVER_ERROR == 500
INTERNAL_SERVER_ERROR == 500
RequestSpan_status_code == 200
MAX_FILE_WRITE_ERRORS == 5

Adapters == {"fastapi", "aiohttp", "litestar", "base_metrics"}
DirectAdapters == {"fastapi", "aiohttp", "base_metrics"}
Methods == {"GET"}
\* the routes of the application, in registration order, and one path that
\* no route matches
app_routes == <<"/ok", "/one">>
UrlPaths == {"/ok", "/one", "/nope"}
StatusCodes == {200, 404}
ExceptionTypes == {"ValueError", "CancelledError"}
\* the faults the application's own exception handling turns into a response
HandledExceptionTypes == {"ValueError"}

\* Optional[...] values: None is distinct from every Some(v), the empty
\* collection included
None == [is_none |-> TRUE]
Some(v) == [is_none |-> FALSE, value |-> v]

\* Python truthiness of an Optional[Set]: None and the empty set are falsy
truthy(opt) == (~opt.is_none) /\ opt.value # {}

\* set(iterable): the members of a list
set(list) == {list[i] : i \in DOMAIN list}

\* str(int) on the status codes that occur
str(n) ==
  CASE n = 200 -> "200"
    [] n = 404 -> "404"
    [] n = 500 -> "500"

\* ------------------------------------------------------------------- state
VARIABLES
  adapter,               \* which middleware the application is served through
  installed,             \* how many times the middleware is in the application's stack
  enable_metrics,        \* MetricsContext.enable_metrics
  registry,              \* MetricsContext.registry is configured
  write_to_file_task,    \* MetricsContext.write_to_file_task (0 is None)
  tasks,                 \* the exporter tasks created so far: id -> coroutine state
  include_routes,        \* the middleware's include_routes
  exclude_routes,        \* the middleware's exclude_routes
  COMMON_LABELS_VALUES,  \* service and pod label values
  REQUESTS,              \* requests_total: labels -> value
  RESPONSES,             \* responses_total
  REQUESTS_PROCESSING_TIME, \* requests_processing_time_seconds: labels -> [count, sum]
  EXCEPTIONS,            \* exceptions_total
  REQUESTS_IN_PROGRESS,  \* requests_in_progress
  clock,                 \* time.perf_counter()
  calls,                 \* the middleware calls: id -> coroutine state
  metrics_by_names,      \* MetricsContext.metrics_by_names: name -> metric
  metrics_by_objects,    \* MetricsContext.metrics_by_objects: metric -> <<name, labels>>
  exported,              \* what the last call of export_to_http_response returned
  last_error,            \* what the last registry or lifecycle call raised ("" is nothing)
  collectors,            \* the live collector registry: name -> times it holds it
  metric_timings,        \* the histogram given to observe_metrics: labels -> [count, sum]
  metric_inprogress,     \* the gauge given to observe_metrics: labels -> value
  wrapper                \* the calls of a decorated operation: id -> coroutine state

ctx == <<adapter, installed, enable_metrics, registry, write_to_file_task, tasks,
         include_routes, exclude_routes, COMMON_LABELS_VALUES>>
metrics == <<REQUESTS, RESPONSES, REQUESTS_PROCESSING_TIME, EXCEPTIONS,
             REQUESTS_IN_PROGRESS>>
registered == <<metrics_by_names, metrics_by_objects, collectors, exported,
                last_error>>
decorated == <<metric_timings, metric_inprogress, wrapper>>
vars == <<ctx, metrics, clock, calls, registered, decorated>>

CallIds == 1..MaxRequests

\* ---------------------------------------------------------------- metrics
\* A collector holds one child per label set it has been used with; a label
\* set that was never used has no sample.
NoSamples == [k \in {} |-> 0]

get_sample_value(metric, labels) ==
  IF labels \in DOMAIN metric THEN metric[labels] ELSE 0

inc(metric, labels) ==
  [k \in DOMAIN metric \cup {labels} |-> get_sample_value(metric, k) + (IF k = labels THEN 1 ELSE 0)]

dec(metric, labels) ==
  [k \in DOMAIN metric \cup {labels} |-> get_sample_value(metric, k) - (IF k = labels THEN 1 ELSE 0)]

RECURSIVE SumOver(_, _)
SumOver(f, S) ==
  IF S = {} THEN 0
  ELSE LET k == CHOOSE x \in S : TRUE IN f[k] + SumOver(f, S \ {k})

NoObservations == [count |-> 0, sum |-> 0]

get_histogram(metric, labels) ==
  IF labels \in DOMAIN metric THEN metric[labels] ELSE NoObservations

observe(metric, labels, amount) ==
  [k \in DOMAIN metric \cup {labels} |->
     IF k = labels
       THEN [count |-> get_histogram(metric, k).count + 1,
             sum |-> get_histogram(metric, k).sum + amount]
       ELSE get_histogram(metric, k)]

\* apply_labels(metric, **labels): the labels given, merged with the current
\* common label values
apply_labels(labels) == COMMON_LABELS_VALUES @@ labels

\* --------------------------------------------------------- middleware calls
\* The state of one middleware call.  `observed` is the branch the coroutine
\* took at its entry; status_code, start_time, duration, end_time are its
\* locals (the RequestSpan in the streaming adapter); `sent` are the messages
\* handed to the original send callable, each with the time it was handed
\* over; `outcome` is what the caller of the middleware got.  `entered_with`
\* is no local of the code: it keeps, while the call is in flight, the common
\* label values its entry was recorded with.
NoOutcome == [kind |-> "none", status |-> 0, exc |-> ""]
NewCall ==
  [pc |-> "new", method |-> "", path_template |-> "",
   observed |-> FALSE, status_code |-> 0, start_time |-> 0, duration |-> 0,
   end_time |-> 0, sent |-> <<>>, exception_context |-> "",
   entered_with |-> None, outcome |-> NoOutcome]

\* the middleware call has returned or raised: its frame is discarded, what
\* remains is what its caller got
done(call, outcome) ==
  [NewCall EXCEPT !.pc = "done", !.method = call.method,
     !.path_template = call.path_template, !.observed = call.observed,
     !.outcome = outcome]

Requests == [method : Methods, url_path : UrlPaths]

\* a request arrives at the middleware: call ids are handed out in order
arrives(r) ==
  /\ installed > 0
  /\ calls[r].pc = "new"
  /\ \A q \in CallIds : q < r => calls[q].pc # "new"

\* route.matches(request.scope) == Match.FULL for the static routes of the
\* application
matches(route, request) == route = request.url_path

Min(S) == CHOOSE x \in S : \A y \in S : x <= y

\* ------------------------------------------ web_frameworks/fastapi.py
fastapi_is_path_excluded(path_template) ==
  IF truthy(include_routes)
    THEN path_template \notin include_routes.value
    ELSE IF truthy(exclude_routes)
      THEN path_template \in exclude_routes.value
      ELSE FALSE

fastapi_get_path_template(request) ==
  LET full == {i \in DOMAIN app_routes : matches(app_routes[i], request)}
  IN IF full # {}
       THEN <<app_routes[Min(full)], TRUE>>
       ELSE <<request.url_path, FALSE>>

\* dispatch up to `await call_next(request)`
fastapi_dispatch(r, request) ==
  /\ adapter = "fastapi"
  /\ arrives(r)
  /\ LET method == request.method
         path_template == fastapi_get_path_template(request)[1]
         is_handled_path == fastapi_get_path_template(request)[2]
         entered == [calls[r] EXCEPT !.pc = "call_next", !.method = method,
                       !.path_template = path_template]
     IN IF \/ ~enable_metrics
           \/ ~is_handled_path
           \/ fastapi_is_path_excluded(path_template)
          THEN /\ calls' = [calls EXCEPT ![r] = entered]
               /\ UNCHANGED metrics
          ELSE /\ REQUESTS_IN_PROGRESS' =
                    inc(REQUESTS_IN_PROGRESS,
                        apply_labels([method |-> method, path_template |-> path_template]))
               /\ REQUESTS' =
                    inc(REQUESTS,
                        apply_labels([method |-> method, path_template |-> path_template]))
               /\ calls' = [calls EXCEPT ![r] =
                              [entered EXCEPT !.observed = TRUE,
                                 !.entered_with = Some(COMMON_LABELS_VALUES),
                                 !.start_time = clock,
                                 !.status_code = HTTP_500_INTERNAL_SERVER_ERROR]]
               /\ UNCHANGED <<RESPONSES, REQUESTS_PROCESSING_TIME, EXCEPTIONS>>
  /\ UNCHANGED <<ctx, clock, registered, decorated>>

\* the else and finally blocks reading the enabled flag again
fastapi_call_next_returns_flag_read_again(r, response_status) ==
  /\ adapter = "fastapi"
  /\ calls[r].pc = "call_next"
  /\ LET method == calls[r].method
         path_template == calls[r].path_template
         status_code == response_status
         after_time == clock
         returned == [kind |-> "response", status |-> response_status, exc |-> ""]
     IN IF ~calls[r].observed \/ ~enable_metrics
          THEN /\ calls' = [calls EXCEPT ![r] = done(calls[r], returned)]
               /\ UNCHANGED metrics
          ELSE /\ REQUESTS_PROCESSING_TIME' =
                    observe(REQUESTS_PROCESSING_TIME,
                            apply_labels([method |-> method, path_template |-> path_template]),
                            after_time - calls[r].start_time)
               /\ RESPONSES' =
                    inc(RESPONSES,
                        apply_labels([method |-> method, path_template |-> path_template,
                                      status_code |-> str(status_code)]))
               /\ REQUESTS_IN_PROGRESS' =
                    dec(REQUESTS_IN_PROGRESS,
                        apply_labels([method |-> method, path_template |-> path_template]))
               /\ calls' = [calls EXCEPT ![r] = done(calls[r], returned)]
               /\ UNCHANGED <<REQUESTS, EXCEPTIONS>>
  /\ UNCHANGED <<ctx, clock, registered, decorated>>

\* `await call_next(request)` returns a response: the else and finally blocks
fastapi_call_next_returns(r, response_status) ==
  /\ adapter = "fastapi"
  /\ calls[r].pc = "call_next"
  /\ LET method == calls[r].method
         path_template == calls[r].path_template
         status_code == response_status
         after_time == clock
         returned == [kind |-> "response", status |-> response_status, exc |-> ""]
     IN IF ~calls[r].observed
          THEN /\ calls' = [calls EXCEPT ![r] = done(calls[r], returned)]
               /\ UNCHANGED metrics
          ELSE /\ REQUESTS_PROCESSING_TIME' =
                    observe(REQUESTS_PROCESSING_TIME,
                            apply_labels([method |-> method, path_template |-> path_template]),
                            after_time - calls[r].start_time)
               /\ RESPONSES' =
                    inc(RESPONSES,
                        apply_labels([method |-> method, path_template |-> path_template,
                                      status_code |-> str(status_code)]))
               /\ REQUESTS_IN_PROGRESS' =
                    dec(REQUESTS_IN_PROGRESS,
                        apply_labels([method |-> method, path_template |-> path_template]))
               /\ calls' = [calls EXCEPT ![r] = done(calls[r], returned)]
               /\ UNCHANGED <<REQUESTS, EXCEPTIONS>>
  /\ UNCHANGED <<ctx, clock, registered, decorated>>

\* the except block without the finally block: the response counter and the
\* gauge are left as they were when the application raises
fastapi_call_next_raises_no_finally(r, e) ==
  /\ adapter = "fastapi"
  /\ calls[r].pc = "call_next"
  /\ LET method == calls[r].method
         path_template == calls[r].path_template
         raised == [kind |-> "raised", status |-> 0, exc |-> e]
     IN IF ~calls[r].observed
          THEN /\ calls' = [calls EXCEPT ![r] = done(calls[r], raised)]
               /\ UNCHANGED metrics
          ELSE /\ EXCEPTIONS' =
                    inc(EXCEPTIONS,
                        apply_labels([method |-> method, path_template |-> path_template,
                                      exception_type |-> e]))
               /\ calls' = [calls EXCEPT ![r] = done(calls[r], raised)]
               /\ UNCHANGED <<REQUESTS, REQUESTS_PROCESSING_TIME, RESPONSES,
                              REQUESTS_IN_PROGRESS>>
  /\ UNCHANGED <<ctx, clock, registered, decorated>>

\* `await call_next(request)` raises e (a fault of the application, or the
\* cancellation of the request): the except and finally blocks
fastapi_call_next_raises(r, e) ==
  /\ adapter = "fastapi"
  /\ calls[r].pc = "call_next"
  /\ LET method == calls[r].method
         path_template == calls[r].path_template
         status_code == calls[r].status_code
         raised == [kind |-> "raised", status |-> 0, exc |-> e]
     IN IF ~calls[r].observed
          THEN /\ calls' = [calls EXCEPT ![r] = done(calls[r], raised)]
               /\ UNCHANGED metrics
          ELSE /\ EXCEPTIONS' =
                    inc(EXCEPTIONS,
                        apply_labels([method |-> method, path_template |-> path_template,
                                      exception_type |-> e]))
               /\ RESPONSES' =
                    inc(RESPONSES,
                        apply_labels([method |-> method, path_template |-> path_template,
                                      status_code |-> str(status_code)]))
               /\ REQUESTS_IN_PROGRESS' =
                    dec(REQUESTS_IN_PROGRESS,
                        apply_labels([method |-> method, path_template |-> path_template]))
               /\ calls' = [calls EXCEPT ![r] = done(calls[r], raised)]
               /\ UNCHANGED <<REQUESTS, REQUESTS_PROCESSING_TIME>>
  /\ UNCHANGED <<ctx, clock, registered, decorated>>

\* add_middleware(app, include_routes, exclude_routes)
fastapi_add_middleware(include, exclude) ==
  /\ adapter = "fastapi"
  /\ installed < MaxMiddlewares
  /\ include_routes' = (IF ~include.is_none THEN Some(set(include.value)) ELSE include)
  /\ exclude_routes' = (IF ~exclude.is_none THEN Some(set(exclude.value)) ELSE exclude)
  /\ installed' = installed + 1
  /\ UNCHANGED <<adapter, enable_metrics, registry, write_to_file_task, tasks,
                 COMMON_LABELS_VALUES, metrics, clock, calls,
                 registered, decorated>>

\* ---------------------------------------- web_frameworks/_middleware.py
PathTemplate(value, is_handled) == [value |-> value, is_handled |-> is_handled]

\* the filter with the exclude set consulted first
is_excluded_exclude_first(path_template) ==
  IF truthy(exclude_routes)
    THEN path_template.value \in exclude_routes.value
    ELSE IF truthy(include_routes)
      THEN path_template.value \notin include_routes.value
      ELSE FALSE

is_excluded(path_template) ==
  IF truthy(include_routes)
    THEN path_template.value \notin include_routes.value
    ELSE IF truthy(exclude_routes)
      THEN path_template.value \in exclude_routes.value
      ELSE FALSE

need_process(path_template) ==
  /\ enable_metrics
  /\ path_template.is_handled
  /\ ~is_excluded(path_template)

\* ------------------------------------------ web_frameworks/aiohttp.py
\* request.match_info as the framework hands it to a middleware: the result
\* of resolving the route.  It is a mapping of the path parameters (empty for
\* the static routes here) with the matched route; when no route matches it
\* is the framework's error match info, an empty mapping whose route has no
\* resource.  The framework sets it before the middlewares run, for every
\* request.
match_info(url_path) ==
  IF \E i \in DOMAIN app_routes : app_routes[i] = url_path
    THEN [is_none |-> FALSE, info |-> {}, resource |-> Some(url_path)]
    ELSE [is_none |-> FALSE, info |-> {}, resource |-> None]

aiohttp_get_path_template(request) ==
  LET mi == match_info(request.url_path)
      value == IF (~mi.is_none /\ mi.info # {}) /\ ~mi.resource.is_none
                 THEN mi.resource.value
                 ELSE request.url_path
  IN PathTemplate(value, mi # None)

\* dispatch up to `await handler(request)`
aiohttp_dispatch(r, request) ==
  /\ adapter = "aiohttp"
  /\ arrives(r)
  /\ LET method == request.method
         path_template == aiohttp_get_path_template(request)
         entered == [calls[r] EXCEPT !.pc = "call_next", !.method = method,
                       !.path_template = path_template.value]
     IN IF ~need_process(path_template)
          THEN /\ calls' = [calls EXCEPT ![r] = entered]
               /\ UNCHANGED metrics
          ELSE /\ REQUESTS_IN_PROGRESS' =
                    inc(REQUESTS_IN_PROGRESS,
                        apply_labels([method |-> method, path_template |-> path_template.value]))
               /\ REQUESTS' =
                    inc(REQUESTS,
                        apply_labels([method |-> method, path_template |-> path_template.value]))
               /\ calls' = [calls EXCEPT ![r] =
                              [entered EXCEPT !.observed = TRUE,
                                 !.entered_with = Some(COMMON_LABELS_VALUES),
                                 !.start_time = clock,
                                 !.status_code = INTERNAL_SERVER_ERROR]]
               /\ UNCHANGED <<RESPONSES, REQUESTS_PROCESSING_TIME, EXCEPTIONS>>
  /\ UNCHANGED <<ctx, clock, registered, decorated>>

\* `await handler(request)` returns a response: the else and finally blocks
aiohttp_handler_returns(r, response_status) ==
  /\ adapter = "aiohttp"
  /\ calls[r].pc = "call_next"
  /\ LET method == calls[r].method
         path_template == calls[r].path_template
         status_code == response_status
         after_time == clock
         returned == [kind |-> "response", status |-> response_status, exc |-> ""]
     IN IF ~calls[r].observed
          THEN /\ calls' = [calls EXCEPT ![r] = done(calls[r], returned)]
               /\ UNCHANGED metrics
          ELSE /\ REQUESTS_PROCESSING_TIME' =
                    observe(REQUESTS_PROCESSING_TIME,
                            apply_labels([method |-> method, path_template |-> path_template]),
                            after_time - calls[r].start_time)
               /\ RESPONSES' =
                    inc(RESPONSES,
                        apply_labels([method |-> method, path_template |-> path_template,
                                      status_code |-> str(status_code)]))
               /\ REQUESTS_IN_PROGRESS' =
                    dec(REQUESTS_IN_PROGRESS,
                        apply_labels([method |-> method, path_template |-> path_template]))
               /\ calls' = [calls EXCEPT ![r] = done(calls[r], returned)]
               /\ UNCHANGED <<REQUESTS, EXCEPTIONS>>
  /\ UNCHANGED <<ctx, clock, registered, decorated>>

\* the except block with the response counted in it and no finally block:
\* the gauge is left as it was when the handler raises
aiohttp_handler_raises_no_dec(r, e) ==
  /\ adapter = "aiohttp"
  /\ calls[r].pc = "call_next"
  /\ LET method == calls[r].method
         path_template == calls[r].path_template
         status_code == calls[r].status_code
         raised == [kind |-> "raised", status |-> 0, exc |-> e]
     IN IF ~calls[r].observed
          THEN /\ calls' = [calls EXCEPT ![r] = done(calls[r], raised)]
               /\ UNCHANGED metrics
          ELSE /\ EXCEPTIONS' =
                    inc(EXCEPTIONS,
                        apply_labels([method |-> method, path_template |-> path_template,
                                      exception_type |-> e]))
               /\ RESPONSES' =
                    inc(RESPONSES,
                        apply_labels([method |-> method, path_template |-> path_template,
                                      status_code |-> str(status_code)]))
               /\ calls' = [calls EXCEPT ![r] = done(calls[r], raised)]
               /\ UNCHANGED <<REQUESTS, REQUESTS_PROCESSING_TIME, REQUESTS_IN_PROGRESS>>
  /\ UNCHANGED <<ctx, clock, registered, decorated>>

\* `await handler(request)` raises e: the except and finally blocks
aiohttp_handler_raises(r, e) ==
  /\ adapter = "aiohttp"
  /\ calls[r].pc = "call_next"
  /\ LET method == calls[r].method
         path_template == calls[r].path_template
         status_code == calls[r].status_code
         raised == [kind |-> "raised", status |-> 0, exc |-> e]
     IN IF ~calls[r].observed
          THEN /\ calls' = [calls EXCEPT ![r] = done(calls[r], raised)]
               /\ UNCHANGED metrics
          ELSE /\ EXCEPTIONS' =
                    inc(EXCEPTIONS,
                        apply_labels([method |-> method, path_template |-> path_template,
                                      exception_type |-> e]))
               /\ RESPONSES' =
                    inc(RESPONSES,
                        apply_labels([method |-> method, path_template |-> path_template,
                                      status_code |-> str(status_code)]))
               /\ REQUESTS_IN_PROGRESS' =
                    dec(REQUESTS_IN_PROGRESS,
                        apply_labels([method |-> method, path_template |-> path_template]))
               /\ calls' = [calls EXCEPT ![r] = done(calls[r], raised)]
               /\ UNCHANGED <<REQUESTS, REQUESTS_PROCESSING_TIME>>
  /\ UNCHANGED <<ctx, clock, registered, decorated>>

\* add_middleware(app, include_routes, exclude_routes)
aiohttp_add_middleware(include, exclude) ==
  /\ adapter = "aiohttp"
  /\ installed < MaxMiddlewares
  /\ include_routes' = (IF ~include.is_none THEN Some(set(include.value)) ELSE include)
  /\ exclude_routes' = (IF ~exclude.is_none THEN Some(set(exclude.value)) ELSE exclude)
  /\ installed' = installed + 1
  /\ UNCHANGED <<adapter, enable_metrics, registry, write_to_file_task, tasks,
                 COMMON_LABELS_VALUES, metrics, clock, calls,
                 registered, decorated>>

\* --------------------------------------------------- metrics_export.py
\* An exporter task is the coroutine _update_metric_file run by the event
\* loop.  pc is where it is: "created" (not yet run), "sleep" (in
\* `await asyncio.sleep`), "write" (inside the try block, in one of the
\* awaits of opening and writing the file), "done".  must_cancel says that
\* task.cancel() was called and the CancelledError is still to be thrown into
\* the coroutine.  log is the outcome of each write it completed (TRUE: the
\* bytes were written), exceptions_logged the calls of LOGGER.exception, and
\* outcome how the task ended ("returned": the coroutine returned,
\* "cancelled": the CancelledError left it).
NewTask ==
  [pc |-> "created", error_count |-> 0, log |-> <<>>, exceptions_logged |-> 0,
   must_cancel |-> FALSE, outcome |-> "none"]

TaskIds == DOMAIN tasks
TaskSlots == 1..MaxTasks

RECURSIVE attempts(_)
attempts(ts) ==
  IF ts = <<>> THEN 0 ELSE Len(Head(ts).log) + attempts(Tail(ts))

\* asyncio.create_task(_update_metric_file(...)): a new task
create_task == Append(tasks, NewTask)

\* a cancel that reaches no task
cancel_nothing(handle) == tasks

\* task.cancel() on the task the handle refers to; it does nothing to a task
\* that is done
cancel(handle) ==
  IF handle # 0 /\ tasks[handle].pc # "done"
    THEN [tasks EXCEPT ![handle].must_cancel = TRUE]
    ELSE tasks

\* the steps of a task leave everything but the task alone
only_task ==
  UNCHANGED <<adapter, installed, enable_metrics, registry, write_to_file_task,
              include_routes, exclude_routes, COMMON_LABELS_VALUES, metrics,
              clock, calls, registered, decorated>>

\* _update_metric_file runs to its first `await asyncio.sleep(update_delay)`
update_metric_file(t) ==
  /\ t \in TaskIds
  /\ tasks[t].pc = "created"
  /\ ~tasks[t].must_cancel
  /\ tasks' = [tasks EXCEPT ![t].pc = "sleep", ![t].error_count = 0]
  /\ only_task

\* the sleep is over: the try block is entered and the write begins
sleep_returns(t) ==
  /\ t \in TaskIds
  /\ tasks[t].pc = "sleep"
  /\ ~tasks[t].must_cancel
  /\ attempts(tasks) < MaxWrites
  /\ tasks' = [tasks EXCEPT ![t].pc = "write"]
  /\ only_task

\* a written file leaving the error counter as it is
write_returns_no_reset(t) ==
  /\ t \in TaskIds
  /\ tasks[t].pc = "write"
  /\ ~tasks[t].must_cancel
  /\ tasks' = [tasks EXCEPT ![t].pc = "sleep",
                            ![t].log = Append(@, TRUE)]
  /\ only_task

\* the file was opened and written: error_count = 0, back to the sleep
write_returns(t) ==
  /\ t \in TaskIds
  /\ tasks[t].pc = "write"
  /\ ~tasks[t].must_cancel
  /\ tasks' = [tasks EXCEPT ![t].pc = "sleep",
                            ![t].error_count = 0,
                            ![t].log = Append(@, TRUE)]
  /\ only_task

\* the give-up rule with the counter compared to one more than the limit
write_raises_one_more(t) ==
  /\ t \in TaskIds
  /\ tasks[t].pc = "write"
  /\ ~tasks[t].must_cancel
  /\ LET error_count == tasks[t].error_count + 1
         failed == [tasks[t] EXCEPT !.error_count = error_count,
                                    !.log = Append(@, FALSE),
                                    !.exceptions_logged = @ + 1]
     IN tasks' = [tasks EXCEPT ![t] =
                    IF error_count >= MAX_FILE_WRITE_ERRORS + 1
                      THEN [failed EXCEPT !.pc = "done", !.outcome = "returned"]
                      ELSE [failed EXCEPT !.pc = "sleep"]]
  /\ only_task

\* opening or writing the file raised an Exception: `except Exception`
write_raises(t) ==
  /\ t \in TaskIds
  /\ tasks[t].pc = "write"
  /\ ~tasks[t].must_cancel
  /\ LET error_count == tasks[t].error_count + 1
         failed == [tasks[t] EXCEPT !.error_count = error_count,
                                    !.log = Append(@, FALSE),
                                    !.exceptions_logged = @ + 1]
     IN tasks' = [tasks EXCEPT ![t] =
                    IF error_count >= MAX_FILE_WRITE_ERRORS
                      THEN [failed EXCEPT !.pc = "done", !.outcome = "returned"]
                      ELSE [failed EXCEPT !.pc = "sleep"]]
  /\ only_task

\* the cancellation counted as one more failed write
cancelled_error_as_failure(t) ==
  /\ t \in TaskIds
  /\ tasks[t].pc # "done"
  /\ tasks[t].must_cancel
  /\ tasks' = [tasks EXCEPT ![t] =
                 [@ EXCEPT !.pc = "done", !.must_cancel = FALSE,
                           !.error_count = @ + 1,
                           !.exceptions_logged = @ + 1,
                           !.outcome = "returned"]]
  /\ only_task

\* The event loop throws the CancelledError into the coroutine where it is
\* suspended.  Inside the try block `except asyncio.CancelledError` breaks
\* out of the loop and the coroutine returns; in the sleep, or before the
\* coroutine ever ran, nothing catches it and the task ends cancelled.
cancelled_error(t) ==
  /\ t \in TaskIds
  /\ tasks[t].pc # "done"
  /\ tasks[t].must_cancel
  /\ tasks' = [tasks EXCEPT ![t] =
                 [@ EXCEPT !.pc = "done", !.must_cancel = FALSE,
                           !.outcome = IF tasks[t].pc = "write"
                                         THEN "returned" ELSE "cancelled"]]
  /\ only_task

\* start_export_to_file(file_path, update_delay), past its two asserts
start_export_to_file ==
  /\ tasks' = create_task
  /\ write_to_file_task' = Len(tasks')

stop_export_to_file ==
  /\ tasks' = cancel(write_to_file_task)
  /\ write_to_file_task' = 0

\* generate_latest(registry): one line for every sample of every collector
\* the registry holds, a histogram giving its count and its sum
CONTENT_TYPE_LATEST == "text/plain; version=0.0.4; charset=utf-8"

sample_lines(name, metric) == {<<name, k, metric[k]>> : k \in DOMAIN metric}

histogram_lines(name, metric) ==
  {<<name \o "_count", k, metric[k].count>> : k \in DOMAIN metric}
    \cup {<<name \o "_sum", k, metric[k].sum>> : k \in DOMAIN metric}

generate_latest(live) ==
  UNION {IF "requests_total" \in DOMAIN live
           THEN sample_lines("requests_total", REQUESTS) ELSE {},
         IF "responses_total" \in DOMAIN live
           THEN sample_lines("responses_total", RESPONSES) ELSE {},
         IF "requests_processing_time_seconds" \in DOMAIN live
           THEN histogram_lines("requests_processing_time_seconds",
                                REQUESTS_PROCESSING_TIME) ELSE {},
         IF "exceptions_total" \in DOMAIN live
           THEN sample_lines("exceptions_total", EXCEPTIONS) ELSE {},
         IF "requests_in_progress" \in DOMAIN live
           THEN sample_lines("requests_in_progress", REQUESTS_IN_PROGRESS) ELSE {}}

\* an export that hands out again what an earlier call returned
export_to_http_response_cached ==
  /\ adapter # "base_metrics"
  /\ IF ~registry
       THEN /\ last_error' = "AssertionError"
            /\ UNCHANGED exported
       ELSE /\ last_error' = ""
            /\ exported' =
                 (IF exported.is_none
                    THEN Some(<<generate_latest(collectors), CONTENT_TYPE_LATEST>>)
                    ELSE exported)
  /\ UNCHANGED <<ctx, metrics, clock, calls, metrics_by_names,
                 metrics_by_objects, collectors, decorated>>

\* export_to_http_response()
export_to_http_response ==
  /\ adapter # "base_metrics"
  /\ IF ~registry
       THEN /\ last_error' = "AssertionError"
            /\ UNCHANGED exported
       ELSE /\ last_error' = ""
            /\ exported' = Some(<<generate_latest(collectors), CONTENT_TYPE_LATEST>>)
  /\ UNCHANGED <<ctx, metrics, clock, calls, metrics_by_names,
                 metrics_by_objects, collectors, decorated>>

\* ------------------------------------------------------- base_metrics.py
\* The first generation: its own context (_MetricsContext) and collectors.
INSTANCE_ID == "host"

base_metrics_is_path_excluded(path_template) ==
  IF truthy(include_routes)
    THEN path_template \notin include_routes.value
    ELSE IF truthy(exclude_routes)
      THEN path_template \in exclude_routes.value
      ELSE FALSE

base_metrics_get_path_template(request) ==
  LET full == {i \in DOMAIN app_routes : matches(app_routes[i], request)}
  IN IF full # {}
       THEN <<app_routes[Min(full)], TRUE>>
       ELSE <<request.url_path, FALSE>>

\* start_metrics without its return for disabled metrics
base_metrics_start_metrics_no_return(facility_name, facility_id, out_file_path, app, enabled, write_to_file, include, exclude) ==
  /\ adapter = "base_metrics"
  /\ enable_metrics' = enabled
  /\ COMMON_LABELS_VALUES' =
       [service |-> IF facility_name # "" THEN facility_name
                                         ELSE COMMON_LABELS_VALUES.service,
        pod |-> IF facility_id # "" THEN facility_id
                                    ELSE COMMON_LABELS_VALUES.pod]
  /\ IF write_to_file /\ out_file_path = ""
       THEN /\ last_error' = "AssertionError"
            /\ UNCHANGED <<write_to_file_task, tasks, include_routes,
                           exclude_routes, installed>>
       ELSE /\ last_error' = ""
            /\ IF write_to_file
                 THEN /\ Len(tasks) < MaxTasks
                      /\ tasks' = create_task
                      /\ write_to_file_task' = Len(tasks')
                 ELSE UNCHANGED <<write_to_file_task, tasks>>
            /\ include_routes' =
                 (IF ~include.is_none THEN Some(set(include.value))
                                      ELSE include_routes)
            /\ exclude_routes' =
                 (IF ~exclude.is_none THEN Some(set(exclude.value))
                                      ELSE exclude_routes)
            /\ app => installed < MaxMiddlewares
            /\ installed' = installed + (IF app THEN 1 ELSE 0)
  /\ UNCHANGED <<adapter, registry, metrics, clock, calls,
                 metrics_by_names, metrics_by_objects, collectors, exported, decorated>>

\* start_metrics(facility_name, facility_id, out_file_path, app, enabled,
\*               write_to_file, file_update_interval, include_routes,
\*               exclude_routes); `assert out_file_path` ends the call with
\* what was assigned before it
base_metrics_start_metrics(facility_name, facility_id, out_file_path, app, enabled, write_to_file, include, exclude) ==
  /\ adapter = "base_metrics"
  /\ enable_metrics' = enabled
  /\ COMMON_LABELS_VALUES' =
       [service |-> IF facility_name # "" THEN facility_name
                                         ELSE COMMON_LABELS_VALUES.service,
        pod |-> IF facility_id # "" THEN facility_id
                                    ELSE COMMON_LABELS_VALUES.pod]
  /\ IF ~enabled
       THEN /\ last_error' = ""
            /\ UNCHANGED <<write_to_file_task, tasks, include_routes,
                           exclude_routes, installed>>
       ELSE IF write_to_file /\ out_file_path = ""
         THEN /\ last_error' = "AssertionError"
              /\ UNCHANGED <<write_to_file_task, tasks, include_routes,
                             exclude_routes, installed>>
         ELSE /\ last_error' = ""
              /\ IF write_to_file
                   THEN /\ Len(tasks) < MaxTasks
                        /\ tasks' = create_task
                        /\ write_to_file_task' = Len(tasks')
                   ELSE UNCHANGED <<write_to_file_task, tasks>>
              /\ include_routes' =
                   (IF ~include.is_none THEN Some(set(include.value))
                                        ELSE include_routes)
              /\ exclude_routes' =
                   (IF ~exclude.is_none THEN Some(set(exclude.value))
                                        ELSE exclude_routes)
              /\ app => installed < MaxMiddlewares
              /\ installed' = installed + (IF app THEN 1 ELSE 0)
  /\ UNCHANGED <<adapter, registry, metrics, clock, calls,
                 metrics_by_names, metrics_by_objects, collectors, exported, decorated>>

base_metrics_stop_metrics ==
  /\ adapter = "base_metrics"
  /\ tasks' = cancel(write_to_file_task)
  /\ write_to_file_task' = 0
  /\ last_error' = ""
  /\ UNCHANGED <<adapter, installed, enable_metrics, registry, include_routes,
                 exclude_routes, COMMON_LABELS_VALUES, metrics, clock, calls,
                 metrics_by_names, metrics_by_objects, collectors, exported, decorated>>

\* dispatch up to `await call_next(request)`
base_metrics_dispatch(r, request) ==
  /\ adapter = "base_metrics"
  /\ arrives(r)
  /\ LET method == request.method
         path_template == base_metrics_get_path_template(request)[1]
         is_handled_path == base_metrics_get_path_template(request)[2]
         entered == [calls[r] EXCEPT !.pc = "call_next", !.method = method,
                       !.path_template = path_template]
     IN IF ~is_handled_path \/ base_metrics_is_path_excluded(path_template)
          THEN /\ calls' = [calls EXCEPT ![r] = entered]
               /\ UNCHANGED metrics
          ELSE /\ REQUESTS_IN_PROGRESS' =
                    inc(REQUESTS_IN_PROGRESS,
                        COMMON_LABELS_VALUES @@ [method |-> method, path_template |-> path_template])
               /\ REQUESTS' =
                    inc(REQUESTS,
                        COMMON_LABELS_VALUES @@ [method |-> method, path_template |-> path_template])
               /\ calls' = [calls EXCEPT ![r] =
                              [entered EXCEPT !.observed = TRUE,
                                 !.entered_with = Some(COMMON_LABELS_VALUES),
                                 !.start_time = clock,
                                 !.status_code = HTTP_500_INTERNAL_SERVER_ERROR]]
               /\ UNCHANGED <<RESPONSES, REQUESTS_PROCESSING_TIME, EXCEPTIONS>>
  /\ UNCHANGED <<ctx, clock, registered, decorated>>

\* `await call_next(request)` returns a response: the else and finally
\* blocks (the collector turns the label value status_code into a string)
base_metrics_call_next_returns(r, response_status) ==
  /\ adapter = "base_metrics"
  /\ calls[r].pc = "call_next"
  /\ LET method == calls[r].method
         path_template == calls[r].path_template
         status_code == response_status
         after_time == clock
         returned == [kind |-> "response", status |-> response_status, exc |-> ""]
     IN IF ~calls[r].observed
          THEN /\ calls' = [calls EXCEPT ![r] = done(calls[r], returned)]
               /\ UNCHANGED metrics
          ELSE /\ REQUESTS_PROCESSING_TIME' =
                    observe(REQUESTS_PROCESSING_TIME,
                            COMMON_LABELS_VALUES @@ [method |-> method, path_template |-> path_template],
                            after_time - calls[r].start_time)
               /\ RESPONSES' =
                    inc(RESPONSES,
                        COMMON_LABELS_VALUES @@ [method |-> method, path_template |-> path_template,
                                                 status_code |-> str(status_code)])
               /\ REQUESTS_IN_PROGRESS' =
                    dec(REQUESTS_IN_PROGRESS,
                        COMMON_LABELS_VALUES @@ [method |-> method, path_template |-> path_template])
               /\ calls' = [calls EXCEPT ![r] = done(calls[r], returned)]
               /\ UNCHANGED <<REQUESTS, EXCEPTIONS>>
  /\ UNCHANGED <<ctx, clock, registered, decorated>>

\* `await call_next(request)` raises e: the except and finally blocks
base_metrics_call_next_raises(r, e) ==
  /\ adapter = "base_metrics"
  /\ calls[r].pc = "call_next"
  /\ LET method == calls[r].method
         path_template == calls[r].path_template
         status_code == calls[r].status_code
         raised == [kind |-> "raised", status |-> 0, exc |-> e]
     IN IF ~calls[r].observed
          THEN /\ calls' = [calls EXCEPT ![r] = done(calls[r], raised)]
               /\ UNCHANGED metrics
          ELSE /\ EXCEPTIONS' =
                    inc(EXCEPTIONS,
                        COMMON_LABELS_VALUES @@ [method |-> method, path_template |-> path_template,
                                                 exception_type |-> e])
               /\ RESPONSES' =
                    inc(RESPONSES,
                        COMMON_LABELS_VALUES @@ [method |-> method, path_template |-> path_template,
                                                 status_code |-> str(status_code)])
               /\ REQUESTS_IN_PROGRESS' =
                    dec(REQUESTS_IN_PROGRESS,
                        COMMON_LABELS_VALUES @@ [method |-> method, path_template |-> path_template])
               /\ calls' = [calls EXCEPT ![r] = done(calls[r], raised)]
               /\ UNCHANGED <<REQUESTS, REQUESTS_PROCESSING_TIME>>
  /\ UNCHANGED <<ctx, clock, registered, decorated>>

\* ------------------------------------------- base_metrics.observe_metrics
\* One call of _wrapper, the decorated operation.  method and inprogress
\* (metric_inprogress is not None) are the decorator's arguments, args what
\* the caller passed, invoked what the wrapped operation was called with,
\* start the local of that name, outcome what the caller got.
NoResult == [kind |-> "none", value |-> ""]
NewWrapper ==
  [pc |-> "new", method |-> "", inprogress |-> FALSE, args |-> "",
   observed |-> FALSE, start |-> 0, invoked |-> <<>>, outcome |-> NoResult]

WrapperIds == 1..MaxWrapperCalls
MethodLabels == {"asdfg"}
Arguments == {"a", "b"}
Results == {"x", "y"}

\* the _wrapper call is over: what remains is what was called and what the
\* caller got
wrapper_done(call, outcome) ==
  [call EXCEPT !.pc = "done", !.start = 0, !.outcome = outcome]

\* _wrapper observing whatever the enabled flag says
wrapper_called_flag_ignored(w, method, inprogress, args) ==
  /\ adapter = "base_metrics"
  /\ wrapper[w].pc = "new"
  /\ \A q \in WrapperIds : q < w => wrapper[q].pc # "new"
  /\ LET entered == [wrapper[w] EXCEPT !.pc = "coro", !.method = method,
                       !.inprogress = inprogress, !.args = args,
                       !.invoked = Append(@, args)]
     IN /\ metric_inprogress' =
             (IF inprogress
                THEN inc(metric_inprogress,
                         COMMON_LABELS_VALUES @@ [method |-> method])
                ELSE metric_inprogress)
        /\ wrapper' = [wrapper EXCEPT ![w] =
                         [entered EXCEPT !.observed = TRUE, !.start = clock]]
        /\ UNCHANGED metric_timings
  /\ UNCHANGED <<ctx, metrics, clock, calls, registered>>

\* _wrapper(*args, **kwargs) up to `await coro(*args, **kwargs)`
wrapper_called(w, method, inprogress, args) ==
  /\ adapter = "base_metrics"
  /\ wrapper[w].pc = "new"
  /\ \A q \in WrapperIds : q < w => wrapper[q].pc # "new"
  /\ LET entered == [wrapper[w] EXCEPT !.pc = "coro", !.method = method,
                       !.inprogress = inprogress, !.args = args,
                       !.invoked = Append(@, args)]
     IN IF ~enable_metrics
          THEN /\ wrapper' = [wrapper EXCEPT ![w] = entered]
               /\ UNCHANGED <<metric_timings, metric_inprogress>>
          ELSE /\ metric_inprogress' =
                    (IF inprogress
                       THEN inc(metric_inprogress,
                                COMMON_LABELS_VALUES @@ [method |-> method])
                       ELSE metric_inprogress)
               /\ wrapper' = [wrapper EXCEPT ![w] =
                                [entered EXCEPT !.observed = TRUE, !.start = clock]]
               /\ UNCHANGED metric_timings
  /\ UNCHANGED <<ctx, metrics, clock, calls, registered>>

\* the finally block observing only when the operation returned
wrapper_finally_on_return(w, outcome) ==
  LET method == wrapper[w].method
      end == clock
  IN /\ metric_timings' =
          (IF outcome.kind = "returned"
             THEN observe(metric_timings, COMMON_LABELS_VALUES @@ [method |-> method],
                          end - wrapper[w].start)
             ELSE metric_timings)
     /\ metric_inprogress' =
          (IF wrapper[w].inprogress
             THEN dec(metric_inprogress, COMMON_LABELS_VALUES @@ [method |-> method])
             ELSE metric_inprogress)

\* the finally block of _wrapper
wrapper_finally(w, outcome) ==
  LET method == wrapper[w].method
      end == clock
  IN /\ metric_timings' =
          observe(metric_timings, COMMON_LABELS_VALUES @@ [method |-> method],
                  end - wrapper[w].start)
     /\ metric_inprogress' =
          (IF wrapper[w].inprogress
             THEN dec(metric_inprogress, COMMON_LABELS_VALUES @@ [method |-> method])
             ELSE metric_inprogress)

\* `await coro(*args, **kwargs)` is over, with a result or with an exception,
\* and _wrapper hands it to its caller
wrapper_ends(w, outcome) ==
  /\ adapter = "base_metrics"
  /\ wrapper[w].pc = "coro"
  /\ IF ~wrapper[w].observed
       THEN UNCHANGED <<metric_timings, metric_inprogress>>
       ELSE wrapper_finally(w, outcome)
  /\ wrapper' = [wrapper EXCEPT ![w] = wrapper_done(wrapper[w], outcome)]
  /\ UNCHANGED <<ctx, metrics, clock, calls, registered>>

coro_returns(w, result) ==
  wrapper_ends(w, [kind |-> "returned", value |-> result])

coro_raises(w, e) ==
  wrapper_ends(w, [kind |-> "raised", value |-> e])

\* ----------------------------------------- web_frameworks/litestar.py
\* _ExceptionContext: a context variable, one value per request context
exception_context_get(r) ==
  IF calls[r].exception_context # "" THEN Some(calls[r].exception_context) ELSE None

\* the application stores the type name of the fault it handled
exception_context_set(r, value) ==
  /\ adapter = "litestar"
  /\ calls[r].pc = "call_next"
  /\ calls[r].exception_context = ""
  /\ calls' = [calls EXCEPT ![r].exception_context = value]
  /\ UNCHANGED <<ctx, metrics, clock, registered, decorated>>

litestar_is_path_excluded(path_template) ==
  IF truthy(include_routes)
    THEN path_template \notin include_routes.value
    ELSE IF truthy(exclude_routes)
      THEN path_template \in exclude_routes.value
      ELSE FALSE

\* __call__ up to `await self.app(...)`.  The router sets
\* scope["path_template"] to the matched route before the middleware runs; a
\* request no route matches is answered by the router and never reaches it.
litestar_call(r, request) ==
  /\ adapter = "litestar"
  /\ arrives(r)
  /\ \E i \in DOMAIN app_routes : matches(app_routes[i], request)
  /\ LET method == request.method
         path_template == request.url_path
         entered == [calls[r] EXCEPT !.pc = "call_next", !.method = method,
                       !.path_template = path_template]
     IN IF ~enable_metrics \/ litestar_is_path_excluded(path_template)
          THEN /\ calls' = [calls EXCEPT ![r] = entered]
               /\ UNCHANGED metrics
          ELSE /\ REQUESTS_IN_PROGRESS' =
                    inc(REQUESTS_IN_PROGRESS,
                        apply_labels([method |-> method, path_template |-> path_template]))
               /\ REQUESTS' =
                    inc(REQUESTS,
                        apply_labels([method |-> method, path_template |-> path_template]))
               /\ calls' = [calls EXCEPT ![r] =
                              [entered EXCEPT !.observed = TRUE,
                                 !.entered_with = Some(COMMON_LABELS_VALUES),
                                 !.start_time = clock,
                                 !.end_time = 0,
                                 !.duration = 0,
                                 !.status_code = RequestSpan_status_code]]
               /\ UNCHANGED <<RESPONSES, REQUESTS_PROCESSING_TIME, EXCEPTIONS>>
  /\ UNCHANGED <<ctx, clock, registered, decorated>>

\* the messages an application may send next: the response start once, then
\* body messages until one says there is no more body
Messages ==
  [type : {"http.response.start"}, status : StatusCodes \cup {500}, more_body : {FALSE}]
    \cup [type : {"http.response.body"}, status : {0}, more_body : BOOLEAN]

\* the original send callable: what was handed to it, and when
send(sent, message) == Append(sent, [message |-> message, at |-> clock])

bodies(sent) == {i \in DOMAIN sent : sent[i].message.type = "http.response.body"}

response_complete(sent) ==
  \E i \in bodies(sent) : ~sent[i].message.more_body

may_send(sent, message) ==
  IF message.type = "http.response.start"
    THEN sent = <<>>
    ELSE /\ sent # <<>>
         /\ ~response_complete(sent)
         /\ Cardinality(bodies(sent)) < MaxBodyEvents

\* wrapped_send taking the time at the first body message only
wrapped_send_first_body_only(r, message) ==
  /\ adapter = "litestar"
  /\ calls[r].pc = "call_next"
  /\ calls[r].observed
  /\ may_send(calls[r].sent, message)
  /\ LET started == IF message.type = "http.response.start"
                      THEN [calls[r] EXCEPT !.status_code = message.status]
                      ELSE calls[r]
         end == clock
         timed == IF message.type = "http.response.body" /\ bodies(calls[r].sent) = {}
                    THEN [started EXCEPT !.duration = end - started.start_time,
                                         !.end_time = end]
                    ELSE started
     IN calls' = [calls EXCEPT ![r] = [timed EXCEPT !.sent = send(@, message)]]
  /\ UNCHANGED <<ctx, metrics, clock, registered, decorated>>

\* wrapped_send(message), called by the application of an observed request
wrapped_send(r, message) ==
  /\ adapter = "litestar"
  /\ calls[r].pc = "call_next"
  /\ calls[r].observed
  /\ may_send(calls[r].sent, message)
  /\ LET started == IF message.type = "http.response.start"
                      THEN [calls[r] EXCEPT !.status_code = message.status]
                      ELSE calls[r]
         end == clock
         timed == IF message.type = "http.response.body"
                    THEN [started EXCEPT !.duration = end - started.start_time,
                                         !.end_time = end]
                    ELSE started
     IN calls' = [calls EXCEPT ![r] = [timed EXCEPT !.sent = send(@, message)]]
  /\ UNCHANGED <<ctx, metrics, clock, registered, decorated>>

\* the finally block without the decrement of the gauge
litestar_finally_no_dec(r) ==
  LET method == calls[r].method
      path_template == calls[r].path_template
      status_code == calls[r].status_code
      exception_type == exception_context_get(r)
  IN /\ REQUESTS_PROCESSING_TIME' =
          observe(REQUESTS_PROCESSING_TIME,
                  apply_labels([method |-> method, path_template |-> path_template]),
                  calls[r].duration)
     /\ RESPONSES' =
          inc(RESPONSES,
              apply_labels([method |-> method, path_template |-> path_template,
                            status_code |-> str(status_code)]))
     /\ EXCEPTIONS' =
          (IF ~exception_type.is_none
             THEN inc(EXCEPTIONS,
                      apply_labels([method |-> method, path_template |-> path_template,
                                    exception_type |-> exception_type.value]))
             ELSE EXCEPTIONS)
     /\ UNCHANGED <<REQUESTS, REQUESTS_IN_PROGRESS>>

\* `await self.app(...)` ends for an observed request: the finally block
litestar_finally(r) ==
  LET method == calls[r].method
      path_template == calls[r].path_template
      status_code == calls[r].status_code
      exception_type == exception_context_get(r)
  IN /\ REQUESTS_PROCESSING_TIME' =
          observe(REQUESTS_PROCESSING_TIME,
                  apply_labels([method |-> method, path_template |-> path_template]),
                  calls[r].duration)
     /\ RESPONSES' =
          inc(RESPONSES,
              apply_labels([method |-> method, path_template |-> path_template,
                            status_code |-> str(status_code)]))
     /\ REQUESTS_IN_PROGRESS' =
          dec(REQUESTS_IN_PROGRESS,
              apply_labels([method |-> method, path_template |-> path_template]))
     /\ EXCEPTIONS' =
          (IF ~exception_type.is_none
             THEN inc(EXCEPTIONS,
                      apply_labels([method |-> method, path_template |-> path_template,
                                    exception_type |-> exception_type.value]))
             ELSE EXCEPTIONS)
     /\ UNCHANGED REQUESTS

\* `await self.app(...)` returns
litestar_app_returns(r) ==
  /\ adapter = "litestar"
  /\ calls[r].pc = "call_next"
  /\ calls[r].observed => response_complete(calls[r].sent)
  /\ IF ~calls[r].observed THEN UNCHANGED metrics ELSE litestar_finally(r)
  /\ calls' = [calls EXCEPT ![r] =
                 done(calls[r], [kind |-> "returned", status |-> 0, exc |-> ""])]
  /\ UNCHANGED <<ctx, clock, registered, decorated>>

\* `await self.app(...)` raises e
litestar_app_raises(r, e) ==
  /\ adapter = "litestar"
  /\ calls[r].pc = "call_next"
  /\ IF ~calls[r].observed THEN UNCHANGED metrics ELSE litestar_finally(r)
  /\ calls' = [calls EXCEPT ![r] =
                 done(calls[r], [kind |-> "raised", status |-> 0, exc |-> e])]
  /\ UNCHANGED <<ctx, clock, registered, decorated>>

\* get_middleware(include_routes, exclude_routes); the application is built
\* with the class it returns
get_middleware(include, exclude) ==
  /\ adapter = "litestar"
  /\ include_routes' = (IF ~include.is_none THEN Some(set(include.value)) ELSE include)
  /\ exclude_routes' = (IF ~exclude.is_none THEN Some(set(exclude.value)) ELSE exclude)
  /\ installed' = 1
  /\ UNCHANGED <<adapter, enable_metrics, registry, write_to_file_task, tasks,
                 COMMON_LABELS_VALUES, metrics, clock, calls,
                 registered, decorated>>

\* ------------------------------------------- the second generation's
\* lifecycle (huntflow_base_metrics.base)
\* The names of the five request metrics, registered when the framework
\* module is imported, and a name an application registers for itself
HTTP_METRICS ==
  {"requests_total", "responses_total", "requests_processing_time_seconds",
   "exceptions_total", "requests_in_progress"}
MetricNames == HTTP_METRICS \cup {"test_timing_histogram"}

NoCollectors == [n \in {} |-> 0]

\* The metric classes of the collector library and the label lists metrics
\* are declared with
MetricTypes == {"Counter", "Gauge", "Histogram"}
HTTP_METRICS_LABELS == <<"method", "path_template">>
LabelLists == {<<"method">>, HTTP_METRICS_LABELS}

NoMetrics == [by_names |-> [n \in {} |-> 0], by_objects |-> [m \in {} |-> 0]]

\* the metric object a registration constructs: an object distinct from
\* every one constructed before
new_metric(type_, by_objects) ==
  [type_ |-> type_, id |-> Cardinality(DOMAIN by_objects) + 1]

\* the two mappings after a registration that succeeds
registered_with(reg, type_, name, labels) ==
  LET metric == new_metric(type_, reg.by_objects)
  IN [by_names |-> (name :> metric) @@ reg.by_names,
      by_objects |-> (metric :> <<name, labels>>) @@ reg.by_objects]

\* the registrations made when the framework module is imported
http_metrics_registered ==
  LET r1 == registered_with(NoMetrics, "Counter", "requests_total", HTTP_METRICS_LABELS)
      r2 == registered_with(r1, "Counter", "responses_total",
                            HTTP_METRICS_LABELS \o <<"status_code">>)
      r3 == registered_with(r2, "Histogram", "requests_processing_time_seconds",
                            HTTP_METRICS_LABELS)
      r4 == registered_with(r3, "Counter", "exceptions_total",
                            HTTP_METRICS_LABELS \o <<"exception_type">>)
  IN registered_with(r4, "Gauge", "requests_in_progress", HTTP_METRICS_LABELS)

\* a registration that overwrites the entry of a name already registered
register_metric_overwrites(type_, name, labels) ==
  /\ adapter # "base_metrics"
  /\ LET reg == registered_with([by_names |-> metrics_by_names,
                                 by_objects |-> metrics_by_objects],
                                type_, name, labels)
     IN /\ metrics_by_names' = reg.by_names
        /\ metrics_by_objects' = reg.by_objects
        /\ last_error' = ""
  /\ UNCHANGED <<ctx, metrics, clock, calls, collectors, exported, decorated>>

\* register_metric(type_, name, description, labels): a name already
\* registered is refused and nothing changes; the live registry is not touched
register_metric(type_, name, labels) ==
  /\ adapter # "base_metrics"
  /\ IF name \in DOMAIN metrics_by_names
       THEN /\ last_error' = "DuplicateNameError"
            /\ UNCHANGED <<metrics_by_names, metrics_by_objects>>
       ELSE LET reg == registered_with([by_names |-> metrics_by_names,
                                        by_objects |-> metrics_by_objects],
                                       type_, name, labels)
            IN /\ metrics_by_names' = reg.by_names
               /\ metrics_by_objects' = reg.by_objects
               /\ last_error' = ""
  /\ UNCHANGED <<ctx, metrics, clock, calls, collectors, exported, decorated>>

\* the validation of apply_labels passing over the labels given beyond the
\* declared ones
label_mismatch_missing_only(metric, labels) ==
  ~(set(metrics_by_objects[metric][2]) \subseteq DOMAIN labels)

\* apply_labels(metric, **labels) refuses the labels given: their names are
\* not the names the metric was registered with
label_mismatch(metric, labels) ==
  DOMAIN labels # set(metrics_by_objects[metric][2])

\* the three counters of the request metrics, by name
CounterNames == {"requests_total", "responses_total", "exceptions_total"}

\* the recordings the three counters hold
records ==
  SumOver(REQUESTS, DOMAIN REQUESTS) + SumOver(RESPONSES, DOMAIN RESPONSES)
    + SumOver(EXCEPTIONS, DOMAIN EXCEPTIONS)

\* apply_labels(metric, **labels).inc() on the counter registered as `name`
labelled_inc(name, labels) ==
  /\ adapter # "base_metrics"
  /\ records < MaxRecords
  /\ name \in CounterNames \cap DOMAIN metrics_by_names
  /\ IF label_mismatch(metrics_by_names[name], labels)
       THEN /\ last_error' = "LabelMismatchError"
            /\ UNCHANGED metrics
       ELSE /\ last_error' = ""
            /\ REQUESTS' = (IF name = "requests_total"
                              THEN inc(REQUESTS, apply_labels(labels)) ELSE REQUESTS)
            /\ RESPONSES' = (IF name = "responses_total"
                               THEN inc(RESPONSES, apply_labels(labels)) ELSE RESPONSES)
            /\ EXCEPTIONS' = (IF name = "exceptions_total"
                                THEN inc(EXCEPTIONS, apply_labels(labels)) ELSE EXCEPTIONS)
            /\ UNCHANGED <<REQUESTS_PROCESSING_TIME, REQUESTS_IN_PROGRESS>>
  /\ UNCHANGED <<ctx, clock, calls, metrics_by_names, metrics_by_objects,
                 collectors, exported, decorated>>

\* adding the registered metrics to the live registry without regard to
\* what it holds already
add_to_registry_again(live, names) ==
  [n \in DOMAIN live \cup names |->
     (IF n \in DOMAIN live THEN live[n] ELSE 0) + (IF n \in names THEN 1 ELSE 0)]

\* every registered metric is added to the live registry; the conflict for
\* one that it holds already is ignored
add_to_registry(live, names) ==
  [n \in DOMAIN live \cup names |-> IF n \in DOMAIN live THEN live[n] ELSE 1]

\* taking the registered metrics out of the live registry but one
remove_from_registry_but_one(live, names) ==
  [n \in DOMAIN live \ (names \ {"requests_total"}) |-> live[n]]

\* every registered metric is taken out of the live registry; one that is
\* not in it is passed over
remove_from_registry(live, names) ==
  [n \in DOMAIN live \ names |-> live[n]]

start_metrics(facility_name, facility_id, out_file_path, enabled, write_to_file) ==
  /\ adapter # "base_metrics"
  /\ enable_metrics' = enabled
  /\ COMMON_LABELS_VALUES' =
       [service |-> IF facility_name # "" THEN facility_name
                                         ELSE COMMON_LABELS_VALUES.service,
        pod |-> IF facility_id # "" THEN facility_id ELSE INSTANCE_ID]
  /\ IF write_to_file /\ out_file_path = ""
       THEN /\ last_error' = "ConfigurationError"
            /\ UNCHANGED <<registry, write_to_file_task, tasks, collectors>>
       ELSE /\ last_error' = ""
            /\ registry' = TRUE
            /\ collectors' = add_to_registry(collectors, DOMAIN metrics_by_names)
            /\ IF write_to_file /\ enabled
                 THEN /\ Len(tasks) < MaxTasks
                      /\ start_export_to_file
                 ELSE UNCHANGED <<write_to_file_task, tasks>>
  /\ UNCHANGED <<adapter, installed, include_routes, exclude_routes, metrics,
                 clock, calls, metrics_by_names, metrics_by_objects, exported, decorated>>

stop_metrics ==
  /\ adapter # "base_metrics"
  /\ enable_metrics' = FALSE
  /\ collectors' = remove_from_registry(collectors, DOMAIN metrics_by_names)
  /\ REQUESTS' = NoSamples
  /\ RESPONSES' = NoSamples
  /\ REQUESTS_PROCESSING_TIME' = NoSamples
  /\ EXCEPTIONS' = NoSamples
  /\ REQUESTS_IN_PROGRESS' = NoSamples
  /\ stop_export_to_file
  /\ last_error' = ""
  /\ UNCHANGED <<adapter, installed, registry, include_routes, exclude_routes,
                 COMMON_LABELS_VALUES, clock, calls, metrics_by_names,
                 metrics_by_objects, exported, decorated>>

\* ------------------------------------------------------------------- time
\* Time passes.  The clock is only read by observed calls and only
\* differences of its readings are used, so it advances while one is in flight.
Tick ==
  /\ clock < MaxTime
  /\ \/ \E r \in CallIds : calls[r].pc = "call_next" /\ calls[r].observed
     \/ \E w \in WrapperIds : wrapper[w].pc = "coro" /\ wrapper[w].observed
  /\ clock' = clock + 1
  /\ UNCHANGED <<ctx, metrics, calls, registered, decorated>>

\* ------------------------------------------------------------ specification
Init ==
  /\ adapter \in Adapters
  /\ installed = 0
  /\ enable_metrics = FALSE
  /\ registry = FALSE
  /\ write_to_file_task = 0
  /\ tasks = <<>>
  /\ include_routes = None
  /\ exclude_routes = None
  /\ COMMON_LABELS_VALUES = [service |-> "undefined", pod |-> INSTANCE_ID]
  /\ REQUESTS = NoSamples
  /\ RESPONSES = NoSamples
  /\ REQUESTS_PROCESSING_TIME = NoSamples
  /\ EXCEPTIONS = NoSamples
  /\ REQUESTS_IN_PROGRESS = NoSamples
  /\ clock = 0
  /\ calls = [r \in CallIds |-> NewCall]
  /\ metrics_by_names = (IF adapter = "base_metrics"
                           THEN NoMetrics.by_names
                           ELSE http_metrics_registered.by_names)
  /\ metrics_by_objects = (IF adapter = "base_metrics"
                             THEN NoMetrics.by_objects
                             ELSE http_metrics_registered.by_objects)
  /\ exported = None
  /\ last_error = ""
  /\ collectors = (IF adapter = "base_metrics"
                     THEN [n \in HTTP_METRICS |-> 1] ELSE NoCollectors)
  /\ metric_timings = NoSamples
  /\ metric_inprogress = NoSamples
  /\ wrapper = [w \in WrapperIds |-> NewWrapper]

\* the configurations and calls the environment makes
IncludeInputs == {None, Some(<<"/ok", "/nope">>)}
ExcludeInputs == {None, Some(<<"/ok", "/one">>)}

Configure ==
  \E include \in IncludeInputs, exclude \in ExcludeInputs :
    \/ fastapi_add_middleware(include, exclude)
    \/ aiohttp_add_middleware(include, exclude)
    \/ get_middleware(include, exclude)
    \/ \E enabled \in BOOLEAN, app \in BOOLEAN :
         base_metrics_start_metrics("svc", "pod-1", "", app, enabled, FALSE,
                                    include, exclude)

Lifecycle ==
  \/ \E enabled \in BOOLEAN : start_metrics("svc", "pod-1", "", enabled, FALSE)
  \/ stop_metrics
  \/ base_metrics_stop_metrics

Enter(ids) ==
  \E r \in ids, request \in Requests :
    \/ fastapi_dispatch(r, request)
    \/ aiohttp_dispatch(r, request)
    \/ base_metrics_dispatch(r, request)
    \/ litestar_call(r, request)

Application ==
  \E r \in CallIds :
    \/ \E s \in StatusCodes :
         \/ fastapi_call_next_returns(r, s)
         \/ aiohttp_handler_returns(r, s)
         \/ base_metrics_call_next_returns(r, s)
    \/ \E e \in ExceptionTypes :
         \/ fastapi_call_next_raises(r, e)
         \/ aiohttp_handler_raises(r, e)
         \/ base_metrics_call_next_raises(r, e)
         \/ litestar_app_raises(r, e)
    \/ \E e \in HandledExceptionTypes : exception_context_set(r, e)
    \/ \E message \in Messages : wrapped_send(r, message)
    \/ litestar_app_returns(r)

Next == Configure \/ Lifecycle \/ Enter(CallIds) \/ Application

Spec == Init /\ [][Next]_vars

\* One request, with time passing while it is in the application
NextTime == Configure \/ Lifecycle \/ Enter({1}) \/ Application \/ Tick

SpecTime == Init /\ [][NextTime]_vars

\* A first-generation process calling operations decorated with
\* observe_metrics, the enabled flag set and reset by start_metrics
InitObserve == Init /\ adapter = "base_metrics"

NextObserve ==
  \/ \E enabled \in BOOLEAN :
       base_metrics_start_metrics("svc", "pod-1", "", FALSE, enabled, FALSE, None, None)
  \/ \E w \in WrapperIds, method \in MethodLabels, inprogress \in BOOLEAN,
        args \in Arguments :
       wrapper_called(w, method, inprogress, args)
  \/ \E w \in WrapperIds, result \in Results : coro_returns(w, result)
  \/ \E w \in WrapperIds, e \in ExceptionTypes : coro_raises(w, e)
  \/ Tick

SpecObserve == InitObserve /\ [][NextObserve]_vars

\* The export to a file.  Start and stop of either generation, and the
\* event loop running the exporter tasks.
FilePaths == {"", "/metrics.prom"}

InitExport == Init /\ adapter \in {"fastapi", "base_metrics"}

Start ==
  \E enabled \in BOOLEAN, write_to_file \in BOOLEAN, out_file_path \in FilePaths :
    \/ start_metrics("svc", "pod-1", out_file_path, enabled, write_to_file)
    \/ base_metrics_start_metrics("svc", "pod-1", out_file_path, FALSE, enabled,
                                  write_to_file, None, None)

Stop == stop_metrics \/ base_metrics_stop_metrics

EventLoop ==
  \E t \in TaskSlots :
    \/ update_metric_file(t)
    \/ sleep_returns(t)
    \/ write_returns(t)
    \/ write_raises(t)
    \/ cancelled_error(t)

\* A process that starts the export once: one exporter task, through all
\* its write cycles, stopped at any point
NextExporter == (tasks = <<>> /\ Start) \/ Stop \/ EventLoop

SpecExporter == InitExport /\ [][NextExporter]_vars

\* The event loop runs a task that is ready: a task with a cancellation
\* pending is ready
DeliverCancellation == \E t \in TaskSlots : cancelled_error(t)

SpecExporterFair == SpecExporter /\ WF_vars(DeliverCancellation)

\* A process that starts and stops at will, each exporter task followed
\* through its first write cycles
EventLoopBriefly ==
  \E t \in TaskSlots :
    \/ update_metric_file(t)
    \/ (attempts(tasks) < MaxCycles /\ sleep_returns(t))
    \/ write_returns(t)
    \/ write_raises(t)
    \/ cancelled_error(t)

NextExport == Start \/ Stop \/ EventLoopBriefly

SpecExport == InitExport /\ [][NextExport]_vars

\* The second generation's registry: metrics are registered, the facility
\* is started and stopped, and one request is served in between
InitRegistry == Init /\ adapter = "fastapi"

NextRegistry ==
  \/ \E type_ \in MetricTypes, name \in MetricNames, labels \in LabelLists :
       register_metric(type_, name, labels)
  \/ \E enabled \in BOOLEAN, write_to_file \in BOOLEAN, out_file_path \in FilePaths :
       start_metrics("svc", "pod-1", out_file_path, enabled, write_to_file)
  \/ stop_metrics
  \/ fastapi_add_middleware(None, None)
  \/ \E request \in Requests : fastapi_dispatch(1, request)
  \/ \E s \in StatusCodes : fastapi_call_next_returns(1, s)
  \/ \E e \in ExceptionTypes : fastapi_call_next_raises(1, e)

SpecRegistry == InitRegistry /\ [][NextRegistry]_vars

\* Restarts: the facility is started, under one service name or another,
\* and stopped while requests are served
FacilityNames == {"svc", "other"}

NextRestart ==
  \/ fastapi_add_middleware(None, None)
  \/ aiohttp_add_middleware(None, None)
  \/ get_middleware(None, None)
  \/ \E facility_name \in FacilityNames, enabled \in BOOLEAN :
       \/ start_metrics(facility_name, "pod-1", "", enabled, FALSE)
       \/ base_metrics_start_metrics(facility_name, "pod-1", "", TRUE, enabled,
                                     FALSE, None, None)
  \/ stop_metrics
  \/ base_metrics_stop_metrics
  \/ Enter(CallIds)
  \/ Application

SpecRestart == Init /\ [][NextRestart]_vars

\* Serving: the facility is started, and started again, and never stopped
\* while requests are served
NextServing ==
  \/ fastapi_add_middleware(None, None)
  \/ aiohttp_add_middleware(None, None)
  \/ get_middleware(None, None)
  \/ \E enabled \in BOOLEAN :
       \/ start_metrics("svc", "pod-1", "", enabled, FALSE)
       \/ base_metrics_start_metrics("svc", "pod-1", "", TRUE, enabled, FALSE,
                                     None, None)
  \/ Enter(CallIds)
  \/ Application

SpecServing == Init /\ [][NextServing]_vars

\* The middleware stack: one request passes every middleware the calls made
\* before it have put in the application, the outermost first.  Call 1 is
\* the outermost middleware call; what call r forwards the request to is
\* call r + 1, and the innermost call forwards it to the application.
depth == Min({installed, MaxRequests})

forwarded(r) ==
  [method |-> calls[r].method, url_path |-> calls[r].path_template]

Dispatch(r, request) ==
  \/ fastapi_dispatch(r, request)
  \/ aiohttp_dispatch(r, request)
  \/ base_metrics_dispatch(r, request)

Returns(r, response_status) ==
  \/ fastapi_call_next_returns(r, response_status)
  \/ aiohttp_handler_returns(r, response_status)
  \/ base_metrics_call_next_returns(r, response_status)

Raises(r, e) ==
  \/ fastapi_call_next_raises(r, e)
  \/ aiohttp_handler_raises(r, e)
  \/ base_metrics_call_next_raises(r, e)

InitStack == Init /\ adapter \in DirectAdapters

NextStack ==
  \/ /\ calls[1].pc = "new"
     /\ \/ fastapi_add_middleware(None, None)
        \/ aiohttp_add_middleware(None, None)
        \/ base_metrics_start_metrics("svc", "pod-1", "", TRUE, TRUE, FALSE,
                                      None, None)
        \/ start_metrics("svc", "pod-1", "", TRUE, FALSE)
  \/ \E request \in Requests : Dispatch(1, request)
  \/ \E r \in CallIds \ {1} :
       /\ r <= depth
       /\ calls[r - 1].pc = "call_next"
       /\ Dispatch(r, forwarded(r - 1))
  \/ \E r \in CallIds :
       /\ r = depth
       /\ \/ \E s \in StatusCodes : Returns(r, s)
          \/ \E e \in ExceptionTypes : Raises(r, e)
  \/ \E r \in CallIds \ {MaxRequests} :
       /\ r < depth
       /\ calls[r + 1].pc = "done"
       /\ IF calls[r + 1].outcome.kind = "response"
            THEN Returns(r, calls[r + 1].outcome.status)
            ELSE Raises(r, calls[r + 1].outcome.exc)

SpecStack == InitStack /\ [][NextStack]_vars

\* The identity of the process: the facility is started with and without a
\* service name and an instance id while requests are served
ServiceNames == {"", "svc"}
InstanceIds == {"", "pod-1"}

NextIdentity ==
  \/ fastapi_add_middleware(None, None)
  \/ aiohttp_add_middleware(None, None)
  \/ \E facility_name \in ServiceNames, facility_id \in InstanceIds, enabled \in BOOLEAN :
       \/ start_metrics(facility_name, facility_id, "", enabled, FALSE)
       \/ base_metrics_start_metrics(facility_name, facility_id, "", TRUE, enabled,
                                     FALSE, None, None)
  \/ \E r \in CallIds, request \in Requests : Dispatch(r, request)
  \/ \E r \in CallIds, response_status \in StatusCodes : Returns(r, response_status)
  \/ \E r \in CallIds, e \in ExceptionTypes : Raises(r, e)

SpecIdentity == InitStack /\ [][NextIdentity]_vars

\* The scrape: the facility is started and stopped, one request is served,
\* and the metrics are exported at any point
NextScrape ==
  \/ \E enabled \in BOOLEAN, write_to_file \in BOOLEAN :
       start_metrics("svc", "pod-1", "", enabled, write_to_file)
  \/ stop_metrics
  \/ fastapi_add_middleware(None, None)
  \/ \E request \in Requests : fastapi_dispatch(1, request)
  \/ \E s \in StatusCodes : fastapi_call_next_returns(1, s)
  \/ \E e \in ExceptionTypes : fastapi_call_next_raises(1, e)
  \/ export_to_http_response

SpecScrape == InitRegistry /\ [][NextScrape]_vars

\* Recording calls of application code on the registered counters, with
\* label names that are and that are not the declared ones
LabelValues ==
  {[method |-> "GET"],
   [method |-> "GET", path_template |-> "/ok"],
   [method |-> "GET", path_template |-> "/ok", status_code |-> "200"],
   [method |-> "GET", path_template |-> "/ok", exception_type |-> "ValueError"],
   [method |-> "GET", path_template |-> "/ok", service |-> "svc"]}

NextLabels ==
  \/ \E type_ \in MetricTypes, name \in MetricNames, labels \in LabelLists :
       register_metric(type_, name, labels)
  \/ \E facility_name \in {"svc", "other"}, enabled \in BOOLEAN :
       start_metrics(facility_name, "pod-1", "", enabled, FALSE)
  \/ \E name \in CounterNames, labels \in LabelValues :
       labelled_inc(name, labels)

SpecLabels == InitRegistry /\ [][NextLabels]_vars

\* ================================================================= claims
\* Reading the collectors by the labels a claim names: the value of
\* metric{labels} is taken over every value of the labels it leaves out.
Matching(metric, labels) ==
  {k \in DOMAIN metric : \A n \in DOMAIN labels : k[n] = labels[n]}

Total(metric, labels) == SumOver(metric, Matching(metric, labels))

Observations(metric, labels) ==
  SumOver([k \in DOMAIN metric |-> metric[k].count], Matching(metric, labels))

HttpLabelSets == [method : Methods, path_template : UrlPaths]
HttpLabels(call) == [method |-> call.method, path_template |-> call.path_template]
StatusLabels == {"200", "404", "500"}

\* the steps of one middleware call
Enters(r) == calls[r].pc = "new" /\ calls'[r].pc = "call_next"
Finishes(r) == calls[r].pc = "call_next" /\ calls'[r].pc = "done"

\* what the specification says of a request, independently of the code
Handled(path) == \E i \in DOMAIN app_routes : app_routes[i] = path

Filtered(template) ==
  IF (~include_routes.is_none) /\ include_routes.value # {}
    THEN ~(template \in include_routes.value)
    ELSE IF (~exclude_routes.is_none) /\ exclude_routes.value # {}
      THEN template \in exclude_routes.value
      ELSE FALSE

ShouldObserve(path) == enable_metrics /\ Handled(path) /\ ~Filtered(path)

\* metric{l} changes by `amount` and metric{l2} by nothing for every other
\* (method, path_template)
ChangesOnlyAt(old, new, l, amount) ==
  \A l2 \in HttpLabelSets :
    Total(new, l2) = Total(old, l2) + (IF l2 = l THEN amount ELSE 0)

\* C1: a request the middleware is to observe (metrics enabled, route handled,
\* route not filtered out) is observed; entering adds exactly 1 to
\* requests_total and to requests_in_progress of its (method, path_template);
\* finishing, on any outcome, adds exactly 1 to responses_total of the same
\* (method, path_template), under one status code, takes the 1 off
\* requests_in_progress again and leaves requests_total alone.
C1_ObservedRequestCounted ==
  [][\A r \in CallIds :
       /\ (Enters(r) /\ ShouldObserve(calls'[r].path_template)) =>
            /\ calls'[r].observed
            /\ ChangesOnlyAt(REQUESTS, REQUESTS', HttpLabels(calls'[r]), 1)
            /\ ChangesOnlyAt(REQUESTS_IN_PROGRESS, REQUESTS_IN_PROGRESS',
                             HttpLabels(calls'[r]), 1)
            /\ ChangesOnlyAt(RESPONSES, RESPONSES', HttpLabels(calls'[r]), 0)
       /\ (calls[r].pc = "call_next" /\ calls'[r].pc = "call_next") =>
            calls'[r].observed = calls[r].observed
       /\ (Finishes(r) /\ calls[r].observed) =>
            /\ ChangesOnlyAt(REQUESTS, REQUESTS', HttpLabels(calls[r]), 0)
            /\ ChangesOnlyAt(RESPONSES, RESPONSES', HttpLabels(calls[r]), 1)
            /\ \E s \in StatusLabels :
                 Total(RESPONSES', HttpLabels(calls[r]) @@ [status_code |-> s])
                   = Total(RESPONSES, HttpLabels(calls[r]) @@ [status_code |-> s]) + 1
            /\ ChangesOnlyAt(REQUESTS_IN_PROGRESS, REQUESTS_IN_PROGRESS',
                             HttpLabels(calls[r]), -1)
    ]_vars

\* a finished observed request, counted once and no longer in progress
C1_Witness ==
  \E r \in CallIds :
    /\ calls[r].pc = "done" /\ calls[r].observed
    /\ calls[r].outcome.kind = "response"
    /\ Total(REQUESTS, HttpLabels(calls[r])) = 1
    /\ Total(RESPONSES, HttpLabels(calls[r]) @@ [status_code |-> "200"]) = 1
    /\ Total(REQUESTS_IN_PROGRESS, HttpLabels(calls[r])) = 0

\* C2: a request that matches no route is forwarded to the application and
\* changes none of the five request metrics, whatever the include and exclude
\* sets contain.
C2_UnmatchedRequestChangesNothing ==
  [][\A r \in CallIds :
       /\ (Enters(r) /\ ~Handled(calls'[r].path_template)) =>
            (~calls'[r].observed /\ UNCHANGED metrics)
       /\ (Finishes(r) /\ ~Handled(calls[r].path_template)) =>
            UNCHANGED metrics
    ]_vars

\* The route filter on its own: every include and exclude set over the paths,
\* metrics enabled, one request entering.
OptionalRouteSets == {None} \cup {Some(S) : S \in SUBSET UrlPaths}

InitFilter ==
  /\ adapter \in Adapters
  /\ installed = 1
  /\ enable_metrics = TRUE
  /\ registry = (adapter # "base_metrics")
  /\ write_to_file_task = 0
  /\ tasks = <<>>
  /\ include_routes \in OptionalRouteSets
  /\ exclude_routes \in OptionalRouteSets
  /\ COMMON_LABELS_VALUES = [service |-> "svc", pod |-> "pod-1"]
  /\ REQUESTS = NoSamples
  /\ RESPONSES = NoSamples
  /\ REQUESTS_PROCESSING_TIME = NoSamples
  /\ EXCEPTIONS = NoSamples
  /\ REQUESTS_IN_PROGRESS = NoSamples
  /\ clock = 0
  /\ calls = [r \in CallIds |-> NewCall]
  /\ metrics_by_names = (IF adapter = "base_metrics"
                           THEN NoMetrics.by_names
                           ELSE http_metrics_registered.by_names)
  /\ metrics_by_objects = (IF adapter = "base_metrics"
                             THEN NoMetrics.by_objects
                             ELSE http_metrics_registered.by_objects)
  /\ exported = None
  /\ last_error = ""
  /\ collectors = (IF adapter = "base_metrics"
                     THEN [n \in HTTP_METRICS |-> 1] ELSE NoCollectors)
  /\ metric_timings = NoSamples
  /\ metric_inprogress = NoSamples
  /\ wrapper = [w \in WrapperIds |-> NewWrapper]

NextFilter == Enter({1})

SpecFilter == InitFilter /\ [][NextFilter]_vars

\* C3: excluded(template) is: with a non-empty include set, true exactly when
\* template is not in it, the exclude set ignored; otherwise with a non-empty
\* exclude set, true exactly when template is in it; otherwise false.  Every
\* adapter's filter computes this, and a request to a handled route is
\* observed exactly when it is not excluded.  With include {"/ok"} and exclude
\* {"/ok", "/one"}, "/ok" is observed and "/one" is not.
C3_RouteFilter ==
  /\ \A t \in UrlPaths :
       /\ is_excluded(PathTemplate(t, TRUE)) = Filtered(t)
       /\ fastapi_is_path_excluded(t) = Filtered(t)
       /\ litestar_is_path_excluded(t) = Filtered(t)
       /\ base_metrics_is_path_excluded(t) = Filtered(t)
  /\ \A r \in CallIds :
       (calls[r].pc = "call_next" /\ Handled(calls[r].path_template)) =>
         /\ calls[r].observed = ~Filtered(calls[r].path_template)
         /\ (include_routes = Some({"/ok"}) /\ exclude_routes = Some({"/ok", "/one"})) =>
              calls[r].observed = (calls[r].path_template = "/ok")

\* include {"/ok"}, exclude {"/ok", "/one"}: the request to "/one" went
\* through unobserved
C3_Witness ==
  /\ include_routes = Some({"/ok"})
  /\ exclude_routes = Some({"/ok", "/one"})
  /\ calls[1].pc = "call_next"
  /\ calls[1].path_template = "/one"
  /\ ~calls[1].observed
  /\ REQUESTS = NoSamples

\* C4: an observed request whose application raises a fault of type T adds
\* exactly 1 to exceptions_total{method, path_template, exception_type=T} and
\* 1 to responses_total with status_code "500", and T reaches the caller; a
\* request whose application completes without a fault leaves
\* exceptions_total as it is.
C4_FaultCounted ==
  [][\A r \in CallIds :
       (Finishes(r) /\ calls[r].observed) =>
         IF calls'[r].outcome.kind = "raised"
           THEN /\ Total(EXCEPTIONS', HttpLabels(calls[r])) =
                     Total(EXCEPTIONS, HttpLabels(calls[r])) + 1
                /\ Total(EXCEPTIONS', HttpLabels(calls[r])
                                        @@ [exception_type |-> calls'[r].outcome.exc]) =
                     Total(EXCEPTIONS, HttpLabels(calls[r])
                                        @@ [exception_type |-> calls'[r].outcome.exc]) + 1
                /\ Total(RESPONSES', HttpLabels(calls[r]) @@ [status_code |-> "500"]) =
                     Total(RESPONSES, HttpLabels(calls[r]) @@ [status_code |-> "500"]) + 1
           ELSE calls[r].exception_context = "" => EXCEPTIONS' = EXCEPTIONS
    ]_vars

\* C5: for every observed request the gauge is incremented when the request
\* enters, and decremented exactly once, by the step that ends the forwarded
\* call, whether it returns, raises a fault or is cancelled; no other step of
\* a request touches the gauge and a finished call takes no further step.
C5_GaugeDecrementedOnce ==
  [][\A r \in CallIds :
       /\ (Enters(r) /\ calls'[r].observed) =>
            ChangesOnlyAt(REQUESTS_IN_PROGRESS, REQUESTS_IN_PROGRESS',
                          HttpLabels(calls'[r]), 1)
       /\ (Enters(r) /\ ~calls'[r].observed) =>
            REQUESTS_IN_PROGRESS' = REQUESTS_IN_PROGRESS
       /\ (calls[r].pc = "call_next" /\ calls'[r].pc = "call_next") =>
            /\ calls'[r].observed = calls[r].observed
            /\ calls'[r] # calls[r] => REQUESTS_IN_PROGRESS' = REQUESTS_IN_PROGRESS
       /\ (Finishes(r) /\ calls[r].observed) =>
            /\ calls'[r].outcome.kind \in {"response", "returned", "raised"}
            /\ ChangesOnlyAt(REQUESTS_IN_PROGRESS, REQUESTS_IN_PROGRESS',
                             HttpLabels(calls[r]), -1)
       /\ (Finishes(r) /\ ~calls[r].observed) =>
            REQUESTS_IN_PROGRESS' = REQUESTS_IN_PROGRESS
       /\ calls[r].pc = "call_next" => calls'[r].pc \in {"call_next", "done"}
       /\ calls[r].pc = "done" => calls'[r] = calls[r]
    ]_vars

\* an observed request that was cancelled in the application, the gauge back
\* at zero
C5_Witness ==
  \E r \in CallIds :
    /\ calls[r].pc = "done" /\ calls[r].observed
    /\ calls[r].outcome = [kind |-> "raised", status |-> 0, exc |-> "CancelledError"]
    /\ HttpLabels(calls[r]) \in {[n \in {"method", "path_template"} |-> k[n]] :
                                   k \in DOMAIN REQUESTS_IN_PROGRESS}
    /\ Total(REQUESTS_IN_PROGRESS, HttpLabels(calls[r])) = 0

\* C6: while the enabled flag is false, a request entering an installed
\* middleware is forwarded unobserved and changes no metric.
C6_DisabledChangesNothing ==
  [][\A r \in CallIds :
       /\ (Enters(r) /\ ~enable_metrics) =>
            (~calls'[r].observed /\ UNCHANGED metrics)
       /\ (Finishes(r) /\ ~calls[r].observed) => UNCHANGED metrics
    ]_vars

\* What the direct-return middlewares do to the metrics when an observed
\* request ends: with a fault of type T, exceptions_total{T} and
\* responses_total{"500"} grow by 1 and nothing is observed; with a response
\* of status s, one observation and responses_total{s} grows by 1; the gauge
\* goes down by 1 either way.
DirectEffect(l, fault, T, s) ==
  /\ ChangesOnlyAt(REQUESTS, REQUESTS', l, 0)
  /\ ChangesOnlyAt(REQUESTS_IN_PROGRESS, REQUESTS_IN_PROGRESS', l, -1)
  /\ ChangesOnlyAt(RESPONSES, RESPONSES', l, 1)
  /\ Total(RESPONSES', l @@ [status_code |-> IF fault THEN "500" ELSE str(s)]) =
       Total(RESPONSES, l @@ [status_code |-> IF fault THEN "500" ELSE str(s)]) + 1
  /\ ChangesOnlyAt(EXCEPTIONS, EXCEPTIONS', l, IF fault THEN 1 ELSE 0)
  /\ fault => Total(EXCEPTIONS', l @@ [exception_type |-> T]) =
                Total(EXCEPTIONS, l @@ [exception_type |-> T]) + 1
  /\ \A l2 \in HttpLabelSets :
       Observations(REQUESTS_PROCESSING_TIME', l2) =
         Observations(REQUESTS_PROCESSING_TIME, l2)
           + (IF l2 = l /\ ~fault THEN 1 ELSE 0)

\* the direct-return middlewares have that effect
DirectEffectOfDirectAdapters ==
  [][\A r \in CallIds :
       (adapter \in DirectAdapters /\ Finishes(r) /\ calls[r].observed) =>
         DirectEffect(HttpLabels(calls[r]),
                      calls'[r].outcome.kind = "raised",
                      calls'[r].outcome.exc,
                      calls'[r].outcome.status)
    ]_vars

\* C7: the streaming middleware changes the metrics as the direct-return
\* middlewares do for the same outcome: a request answered with status s, and
\* a request whose handler faults with type T (the fault reaching the
\* middleware, or handled by the application, which then stores its type name
\* and answers).
C7_StreamingMatchesDirect ==
  [][\A r \in CallIds :
       (adapter = "litestar" /\ Finishes(r) /\ calls[r].observed) =>
         IF calls'[r].outcome.kind = "raised"
           THEN DirectEffect(HttpLabels(calls[r]), TRUE, calls'[r].outcome.exc, 0)
           ELSE IF calls[r].exception_context # ""
             THEN DirectEffect(HttpLabels(calls[r]), TRUE, calls[r].exception_context, 0)
             ELSE DirectEffect(HttpLabels(calls[r]), FALSE, "",
                               calls[r].sent[1].message.status)
    ]_vars

\* a status code has been obtained for the request that ends in this step
StatusObtained(r) ==
  IF adapter = "litestar"
    THEN calls[r].sent # <<>>
    ELSE calls'[r].outcome.kind = "response"

\* C8: an observed request that ends before any status code was obtained is
\* counted in responses_total with status_code "500".
C8_StatusDefaultsTo500 ==
  [][\A r \in CallIds :
       (Finishes(r) /\ calls[r].observed /\ ~StatusObtained(r)) =>
         Total(RESPONSES', HttpLabels(calls[r]) @@ [status_code |-> "500"]) =
           Total(RESPONSES, HttpLabels(calls[r]) @@ [status_code |-> "500"]) + 1
    ]_vars

\* the sum of the durations observed under the labels
ObservedSum(metric, labels) ==
  SumOver([k \in DOMAIN metric |-> metric[k].sum], Matching(metric, labels))

\* the application hands a message to the wrapped send callable
Sends(r) ==
  /\ calls[r].pc = "call_next" /\ calls'[r].pc = "call_next"
  /\ calls'[r].sent # calls[r].sent

LastBody(sent) == CHOOSE i \in bodies(sent) : \A j \in bodies(sent) : j <= i

\* C9: the wrapped send callable hands every message on to the original one,
\* unchanged and at once; a "http.response.start" message records its status
\* and nothing else, a "http.response.body" message records the time since
\* the start of the request and nothing else.  So once a body message has
\* gone through, the status is the one of the start message before it and
\* the duration is the time to the last body message, and that duration is
\* what the request adds to the histogram when it ends.
C9_WrappedSend ==
  [][\A r \in CallIds :
       /\ Sends(r) =>
            LET n == Len(calls'[r].sent)
                message == calls'[r].sent[n].message
            IN /\ n = Len(calls[r].sent) + 1
               /\ SubSeq(calls'[r].sent, 1, n - 1) = calls[r].sent
               /\ calls'[r].sent[n].at = clock
               /\ message.type = "http.response.start" =>
                    /\ calls'[r].status_code = message.status
                    /\ calls'[r].duration = calls[r].duration
                    /\ calls'[r].end_time = calls[r].end_time
               /\ message.type = "http.response.body" =>
                    /\ calls'[r].duration = clock - calls[r].start_time
                    /\ calls'[r].end_time = clock
                    /\ calls'[r].status_code = calls[r].status_code
       /\ (calls[r].pc = "call_next" /\ calls'[r].pc = "call_next"
             /\ calls'[r].sent = calls[r].sent) =>
            /\ calls'[r].status_code = calls[r].status_code
            /\ calls'[r].duration = calls[r].duration
       /\ (calls[r].pc = "call_next" /\ calls[r].observed
             /\ bodies(calls[r].sent) # {}) =>
            /\ calls[r].sent[1].message.type = "http.response.start"
            /\ calls[r].status_code = calls[r].sent[1].message.status
            /\ calls[r].duration =
                 calls[r].sent[LastBody(calls[r].sent)].at - calls[r].start_time
       /\ (adapter = "litestar" /\ Finishes(r) /\ calls[r].observed) =>
            /\ ObservedSum(REQUESTS_PROCESSING_TIME', HttpLabels(calls[r])) =
                 ObservedSum(REQUESTS_PROCESSING_TIME, HttpLabels(calls[r]))
                   + calls[r].duration
            /\ calls[r].sent # <<>> =>
                 Total(RESPONSES', HttpLabels(calls[r])
                         @@ [status_code |-> str(calls[r].sent[1].message.status)]) =
                   Total(RESPONSES, HttpLabels(calls[r])
                         @@ [status_code |-> str(calls[r].sent[1].message.status)]) + 1
    ]_vars

\* a response in two body messages sent at different times has gone through,
\* and the duration recorded is the time to the second
C9_Witness ==
  \E r \in CallIds :
    /\ calls[r].pc = "call_next" /\ calls[r].observed
    /\ Cardinality(bodies(calls[r].sent)) = 2
    /\ calls[r].sent[2].at < calls[r].sent[3].at
    /\ calls[r].sent[1].at < calls[r].sent[2].at
    /\ calls[r].duration = calls[r].sent[3].at - calls[r].start_time

\* C10: the histogram gets exactly one observation for an observed request
\* that completes, and none for one that ends with a fault reaching the
\* middleware.
C10_ObservationOnSuccessOnly ==
  [][\A r \in CallIds :
       (Finishes(r) /\ calls[r].observed) =>
         \A l2 \in HttpLabelSets :
           Observations(REQUESTS_PROCESSING_TIME', l2) =
             Observations(REQUESTS_PROCESSING_TIME, l2)
               + (IF l2 = HttpLabels(calls[r]) /\ calls'[r].outcome.kind # "raised"
                    THEN 1 ELSE 0)
    ]_vars

\* the steps of one call of a decorated operation
Called(w) == wrapper[w].pc = "new" /\ wrapper'[w].pc = "coro"
Ended(w) == wrapper[w].pc = "coro" /\ wrapper'[w].pc = "done"
MethodLabel(call) == [method |-> call.method]

\* the decorated operation is invoked once, with the arguments of the caller,
\* and the caller gets what it returned or raised
Transparent(w) ==
  /\ Called(w) => wrapper'[w].invoked = <<wrapper'[w].args>>
  /\ wrapper[w].pc = "coro" =>
       /\ wrapper'[w].invoked = wrapper[w].invoked
       /\ wrapper'[w].args = wrapper[w].args
       /\ wrapper'[w].observed = wrapper[w].observed
  /\ Ended(w) => wrapper'[w].outcome.kind \in {"returned", "raised"}
  /\ wrapper[w].pc = "done" => wrapper'[w] = wrapper[w]

\* C11: a call of a decorated operation made while the enabled flag is false
\* invokes the operation once with the caller's arguments, hands its result
\* or exception to the caller, and neither when it begins nor when it ends
\* touches the timing metric or the in-progress metric.
C11_DisabledWrapperIsTransparent ==
  [][\A w \in WrapperIds :
       /\ Transparent(w)
       /\ (Called(w) /\ ~enable_metrics) =>
            /\ ~wrapper'[w].observed
            /\ UNCHANGED <<metric_timings, metric_inprogress>>
       /\ (Ended(w) /\ ~wrapper[w].observed) =>
            UNCHANGED <<metric_timings, metric_inprogress>>
    ]_vars

\* a call made with the flag false has ended with a result, and another
\* with an exception; no metric has a sample
C11_Witness ==
  /\ wrapper[1].pc = "done" /\ ~wrapper[1].observed
  /\ wrapper[1].outcome = [kind |-> "returned", value |-> "x"]
  /\ wrapper[2].pc = "done" /\ ~wrapper[2].observed
  /\ wrapper[2].outcome.kind = "raised"
  /\ wrapper[1].inprogress
  /\ metric_timings = NoSamples /\ metric_inprogress = NoSamples

\* the value of the in-progress gauge changes by `amount` if the decorator
\* was given one, and not at all if it was not
InProgressChanges(call, amount) ==
  IF call.inprogress
    THEN Total(metric_inprogress', MethodLabel(call)) =
           Total(metric_inprogress, MethodLabel(call)) + amount
    ELSE metric_inprogress' = metric_inprogress

\* C12: a call of a decorated operation made while the enabled flag is true
\* increments the in-progress gauge (if one was given) when it begins; when
\* it ends, by a result or by an exception, it adds one observation, of the
\* time the call took, to the timing histogram under its method label and
\* decrements the gauge; the operation is invoked once with the caller's
\* arguments and its result or exception goes to the caller.
C12_EnabledWrapperObserves ==
  [][\A w \in WrapperIds :
       /\ Transparent(w)
       /\ (Called(w) /\ enable_metrics) =>
            /\ wrapper'[w].observed
            /\ InProgressChanges(wrapper'[w], 1)
            /\ metric_timings' = metric_timings
       /\ (Ended(w) /\ wrapper[w].observed) =>
            /\ Observations(metric_timings', MethodLabel(wrapper[w])) =
                 Observations(metric_timings, MethodLabel(wrapper[w])) + 1
            /\ ObservedSum(metric_timings', MethodLabel(wrapper[w])) =
                 ObservedSum(metric_timings, MethodLabel(wrapper[w]))
                   + (clock - wrapper[w].start)
            /\ InProgressChanges(wrapper[w], -1)
    ]_vars

\* an observed call with a gauge has ended with an exception after some
\* time, and has its observation
C12_Witness ==
  \E w \in WrapperIds :
    /\ wrapper[w].pc = "done" /\ wrapper[w].observed /\ wrapper[w].inprogress
    /\ wrapper[w].outcome.kind = "raised"
    /\ Observations(metric_timings, MethodLabel(wrapper[w])) >= 1
    /\ ObservedSum(metric_timings, MethodLabel(wrapper[w])) >= 1
    /\ Total(metric_inprogress, MethodLabel(wrapper[w])) = 0

\* the number of failed writes at the end of a log
RECURSIVE ConsecutiveFailures(_)
ConsecutiveFailures(log) ==
  IF log = <<>> \/ log[Len(log)] THEN 0
  ELSE 1 + ConsecutiveFailures(SubSeq(log, 1, Len(log) - 1))

\* the steps of an exporter task
WriteStarts(t) == tasks[t].pc # "write" /\ tasks'[t].pc = "write"
WriteFails(t) ==
  tasks[t].pc = "write" /\ tasks'[t].log = Append(tasks[t].log, FALSE)
WriteSucceeds(t) ==
  tasks[t].pc = "write" /\ tasks'[t].log = Append(tasks[t].log, TRUE)
Terminates(t) == tasks[t].pc # "done" /\ tasks'[t].pc = "done"
Running(task) == task.pc # "done" /\ ~task.must_cancel

\* C13: a failed write ends the exporter task exactly when it is the 5th
\* failed write in a row; otherwise the task goes back to sleep for the next
\* cycle.  The task ends by returning, nothing else in the process changes,
\* and a task that has ended takes no further step, so it starts no write.
C13_ExporterGivesUpAtFifthFailure ==
  [][\A t \in TaskIds :
       /\ WriteFails(t) =>
            /\ tasks'[t].pc =
                 (IF ConsecutiveFailures(tasks'[t].log) = MAX_FILE_WRITE_ERRORS
                    THEN "done" ELSE "sleep")
            /\ tasks'[t].pc = "done" => tasks'[t].outcome = "returned"
            /\ UNCHANGED <<enable_metrics, write_to_file_task, metrics, calls>>
       /\ tasks[t].pc = "done" => tasks'[t] = tasks[t]
    ]_vars

\* a task has ended after a written file and then five failed writes
C13_Witness ==
  \E t \in TaskIds :
    /\ tasks[t].pc = "done" /\ tasks[t].outcome = "returned"
    /\ tasks[t].log = <<TRUE, FALSE, FALSE, FALSE, FALSE, FALSE>>

\* C14: the error counter of an exporter task is the number of failed writes
\* since its last written file (or since it began) and lies in 0..5; a
\* written file sets it to 0; and a task that ends of its own accord (no
\* cancellation pending) has just had 5 failed writes in a row.
C14_ErrorCounterCountsConsecutiveFailures ==
  /\ [](\A t \in TaskIds :
          /\ tasks[t].error_count = ConsecutiveFailures(tasks[t].log)
          /\ tasks[t].error_count \in 0..MAX_FILE_WRITE_ERRORS)
  /\ [][\A t \in TaskIds :
          /\ WriteSucceeds(t) => tasks'[t].error_count = 0 /\ tasks'[t].pc = "sleep"
          /\ (Terminates(t) /\ ~tasks[t].must_cancel) =>
               ConsecutiveFailures(tasks'[t].log) = MAX_FILE_WRITE_ERRORS
       ]_vars

\* a task still going after five failed writes in all
C14_Witness ==
  \E t \in TaskIds :
    /\ tasks[t].pc = "sleep"
    /\ tasks[t].log = <<FALSE, FALSE, FALSE, FALSE, TRUE, FALSE>>
    /\ tasks[t].error_count = 1

CancelPending(t) == IF t \in TaskIds THEN tasks[t].must_cancel ELSE FALSE
Done(t) == IF t \in TaskIds THEN tasks[t].pc = "done" ELSE FALSE

\* C15: an exporter task that task.cancel() was called on ends, wherever it
\* was (not yet run, sleeping, or writing); the step that ends it leaves the
\* error counter, the log of writes and the count of logged failures as they
\* were; and from the cancel on the task starts no write.
C15_CancelledExporterTerminates ==
  /\ [][\A t \in TaskIds :
          /\ tasks[t].must_cancel =>
               /\ ~WriteStarts(t)
               /\ tasks'[t].log = tasks[t].log
               /\ tasks'[t].error_count = tasks[t].error_count
               /\ tasks'[t].exceptions_logged = tasks[t].exceptions_logged
               /\ tasks'[t].pc \in {tasks[t].pc, "done"}
          /\ (tasks[t].pc # "done" /\ ~tasks[t].must_cancel /\ tasks'[t].must_cancel) =>
               tasks'[t] = [tasks[t] EXCEPT !.must_cancel = TRUE]
       ]_vars
  /\ \A t \in TaskSlots : CancelPending(t) ~> Done(t)

\* a task has ended by a cancellation in the middle of a write, after a
\* failed write: one failure counted and logged
C15_Witness ==
  \E t \in TaskIds :
    /\ tasks[t].pc = "done" /\ tasks[t].outcome = "returned"
    /\ tasks[t].log = <<FALSE>>
    /\ tasks[t].error_count = 1 /\ tasks[t].exceptions_logged = 1

\* C16: a stop cancels the task the handle refers to and sets the handle to
\* none; a start that creates a task creates a new one, not yet run, refers
\* to it by the handle and leaves the older tasks as they are; and a task that
\* was cancelled never runs again: it starts no write and stays cancelled
\* until it is done.
C16_StopCancelsReferencedTask ==
  [][/\ (base_metrics_stop_metrics \/ stop_metrics) =>
          /\ write_to_file_task' = 0
          /\ Len(tasks') = Len(tasks)
          /\ write_to_file_task # 0 => ~Running(tasks'[write_to_file_task])
     /\ Len(tasks') # Len(tasks) =>
          /\ tasks' = Append(tasks, NewTask)
          /\ write_to_file_task' = Len(tasks')
     /\ \A t \in TaskIds :
          ~Running(tasks[t]) => (~Running(tasks'[t]) /\ ~WriteStarts(t))
    ]_vars

\* the task of the first start was cancelled by a stop while it was going,
\* and the handle refers to the task of a second start, not cancelled
C16_Witness ==
  /\ Len(tasks) = 2
  /\ write_to_file_task = 2
  /\ ~Running(tasks[1]) /\ tasks[1].log # <<>>
  /\ tasks[1].outcome \in {"none", "cancelled"}
  /\ Running(tasks[2])

\* C17: at most one exporter task is running (not cancelled and not done),
\* and a running exporter task is the one the handle refers to.
C17_SingleExporterTask ==
  /\ Cardinality({t \in TaskIds : Running(tasks[t])}) <= 1
  /\ \A t \in TaskIds : Running(tasks[t]) => write_to_file_task = t

\* no metric has a sample
AllCleared ==
  /\ REQUESTS = NoSamples
  /\ RESPONSES = NoSamples
  /\ REQUESTS_PROCESSING_TIME = NoSamples
  /\ EXCEPTIONS = NoSamples
  /\ REQUESTS_IN_PROGRESS = NoSamples

NotLive == \A n \in DOMAIN metrics_by_names : n \notin DOMAIN collectors

\* a step of stop, of either generation
StopStep == stop_metrics \/ base_metrics_stop_metrics

\* the state a stop leaves
StopLeaves ==
  /\ ~enable_metrics
  /\ write_to_file_task = 0
  /\ adapter # "base_metrics" => (AllCleared /\ NotLive)

\* C18: stop can be called in every state, the initial one included; it
\* leaves the enabled flag false and the exporter handle none; and called in
\* the initial state or in the state a stop has left, it changes nothing.
C18_StopIdempotent ==
  /\ [](ENABLED StopStep)
  /\ [](InitExport => StopLeaves)
  /\ [](StopLeaves => ~ENABLED (StopStep /\ vars' # vars))
  /\ [][StopStep => StopLeaves']_vars

\* C19: a stop leaves the enabled flag false, none of the registered metrics
\* in the live registry and no metric with a sample; a start gives no metric
\* a sample, so after it every metric still reads empty until a request is
\* recorded.
C19_StopClearsMetrics ==
  [][/\ stop_metrics => (~enable_metrics' /\ NotLive' /\ AllCleared')
     /\ (\E enabled \in BOOLEAN, write_to_file \in BOOLEAN, out_file_path \in FilePaths :
           start_metrics("svc", "pod-1", out_file_path, enabled, write_to_file))
          => (metrics' = metrics)
    ]_vars

\* a request was observed and counted, and now, stopped and started again,
\* the metrics are enabled, live and empty
C19_Witness ==
  /\ calls[1].pc = "done" /\ calls[1].observed
  /\ enable_metrics
  /\ \A n \in DOMAIN metrics_by_names : n \in DOMAIN collectors
  /\ AllCleared

\* a start that returns: the one that asks for the file export without a
\* path does not
StartReturns ==
  \E enabled \in BOOLEAN, write_to_file \in BOOLEAN, out_file_path \in FilePaths :
    /\ ~(write_to_file /\ out_file_path = "")
    /\ start_metrics("svc", "pod-1", out_file_path, enabled, write_to_file)

\* C20: registering a metric leaves the live registry alone, and before the
\* first start that returns no registered metric is in it; a start that
\* returns leaves every registered metric in the live registry; the live
\* registry never holds a metric more than once; and a start in a state
\* where they are all live already leaves the same set live.
C20_RegistrationDecoupledFromStart ==
  /\ [](~registry => NotLive)
  /\ [](\A n \in DOMAIN collectors : collectors[n] = 1)
  /\ [][/\ (\E type_ \in MetricTypes, name \in MetricNames, labels \in LabelLists :
                register_metric(type_, name, labels)) =>
             collectors' = collectors
        /\ StartReturns =>
             /\ \A n \in DOMAIN metrics_by_names : n \in DOMAIN collectors'
             /\ (\A n \in DOMAIN metrics_by_names : n \in DOMAIN collectors) =>
                  DOMAIN collectors' = DOMAIN collectors
       ]_vars

\* a metric the application registered is live, after two starts with the
\* file export and no stop in between
C20_Witness ==
  /\ "test_timing_histogram" \in DOMAIN metrics_by_names
  /\ \A n \in DOMAIN metrics_by_names : n \in DOMAIN collectors
  /\ Len(tasks) = 2
  /\ \A t \in TaskIds : Running(tasks[t])

\* the two registry mappings describe the same registrations: every name
\* leads to a metric recorded under that name, and every metric recorded is
\* the one its name leads to
MappingsConsistent ==
  /\ \A n \in DOMAIN metrics_by_names :
       /\ metrics_by_names[n] \in DOMAIN metrics_by_objects
       /\ metrics_by_objects[metrics_by_names[n]][1] = n
  /\ \A m \in DOMAIN metrics_by_objects :
       /\ metrics_by_objects[m][1] \in DOMAIN metrics_by_names
       /\ metrics_by_names[metrics_by_objects[m][1]] = m

\* C21: registering a name already registered raises the duplicate-name
\* error and leaves both mappings as they were; registering a new name adds
\* one entry to each mapping, the metric recorded with the name and the
\* labels given, and changes no other entry; the two mappings are
\* consistent in every state.
C21_RegisterRefusesDuplicateName ==
  /\ []MappingsConsistent
  /\ [][\A type_ \in MetricTypes, name \in MetricNames, labels \in LabelLists :
          register_metric(type_, name, labels) =>
            IF name \in DOMAIN metrics_by_names
              THEN /\ last_error' = "DuplicateNameError"
                   /\ metrics_by_names' = metrics_by_names
                   /\ metrics_by_objects' = metrics_by_objects
              ELSE /\ last_error' = ""
                   /\ DOMAIN metrics_by_names' = DOMAIN metrics_by_names \cup {name}
                   /\ \A n \in DOMAIN metrics_by_names :
                        metrics_by_names'[n] = metrics_by_names[n]
                   /\ metrics_by_names'[name] \notin DOMAIN metrics_by_objects
                   /\ metrics_by_names'[name].type_ = type_
                   /\ DOMAIN metrics_by_objects' =
                        DOMAIN metrics_by_objects \cup {metrics_by_names'[name]}
                   /\ \A m \in DOMAIN metrics_by_objects :
                        metrics_by_objects'[m] = metrics_by_objects[m]
                   /\ metrics_by_objects'[metrics_by_names'[name]] = <<name, labels>>
       ]_vars

\* a name was registered by the application, and registering it once more
\* was refused
C21_Witness ==
  /\ "test_timing_histogram" \in DOMAIN metrics_by_names
  /\ Cardinality(DOMAIN metrics_by_objects) = Cardinality(HTTP_METRICS) + 1
  /\ last_error = "DuplicateNameError"

\* C22: a recording call through apply_labels goes through exactly when the
\* label names given are the names the metric was registered with (service
\* and pod are not among them); it then adds 1 to the sample of the labels
\* given, merged with the common label values, and to nothing else.  With
\* a name missing or a name too many it raises the label-mismatch error and
\* no sample of any metric changes.
C22_ApplyLabelsChecksLabelNames ==
  [][\A name \in CounterNames, labels \in LabelValues :
       labelled_inc(name, labels) =>
         LET old == CASE name = "requests_total" -> REQUESTS
                      [] name = "responses_total" -> RESPONSES
                      [] name = "exceptions_total" -> EXCEPTIONS
             new == CASE name = "requests_total" -> REQUESTS'
                      [] name = "responses_total" -> RESPONSES'
                      [] name = "exceptions_total" -> EXCEPTIONS'
             key == [service |-> COMMON_LABELS_VALUES.service,
                     pod |-> COMMON_LABELS_VALUES.pod] @@ labels
         IN IF DOMAIN labels = set(metrics_by_objects[metrics_by_names[name]][2])
              THEN /\ last_error' = ""
                   /\ \A k \in DOMAIN old \cup DOMAIN new :
                        get_sample_value(new, k) =
                          get_sample_value(old, k) + (IF k = key THEN 1 ELSE 0)
                   /\ key \in DOMAIN new
                   /\ \A other \in CounterNames \ {name} :
                        /\ other = "requests_total" => REQUESTS' = REQUESTS
                        /\ other = "responses_total" => RESPONSES' = RESPONSES
                        /\ other = "exceptions_total" => EXCEPTIONS' = EXCEPTIONS
                   /\ UNCHANGED <<REQUESTS_PROCESSING_TIME, REQUESTS_IN_PROGRESS>>
              ELSE /\ last_error' = "LabelMismatchError"
                   /\ UNCHANGED metrics
    ]_vars

\* a recording call went through, and one after it was refused
C22_Witness ==
  /\ records = 1
  /\ last_error = "LabelMismatchError"

\* a call of start, of either generation, with the given arguments
StartCall(out_file_path, enabled, write_to_file) ==
  \/ start_metrics("svc", "pod-1", out_file_path, enabled, write_to_file)
  \/ base_metrics_start_metrics("svc", "pod-1", out_file_path, FALSE, enabled,
                                write_to_file, None, None)

\* C23: a start with write_to_file set and no file path raises an error and
\* creates no exporter task, the handle staying as it was; a start with
\* write_to_file set, metrics enabled and a path raises nothing and creates
\* one new exporter task, which the handle then refers to.
C23_StartNeedsFilePath ==
  [][\A out_file_path \in FilePaths, enabled \in BOOLEAN, write_to_file \in BOOLEAN :
       StartCall(out_file_path, enabled, write_to_file) =>
         /\ (write_to_file /\ out_file_path = "") =>
              /\ last_error' # ""
              /\ tasks' = tasks
              /\ write_to_file_task' = write_to_file_task
         /\ (write_to_file /\ enabled /\ out_file_path # "") =>
              /\ last_error' = ""
              /\ tasks' = Append(tasks, NewTask)
              /\ write_to_file_task' = Len(tasks')
    ]_vars

\* C24: an export while no registry is configured, as in the initial state,
\* raises an error and returns nothing; an export with a registry
\* configured raises nothing and returns the scrape content type with the
\* lines of the values the live collectors hold at the call, a line for
\* every sample of requests_total among them.
C24_ExportReflectsCurrentValues ==
  [][export_to_http_response =>
       IF ~registry
         THEN /\ last_error' # ""
              /\ exported' = exported
         ELSE /\ last_error' = ""
              /\ exported' = Some(<<generate_latest(collectors), CONTENT_TYPE_LATEST>>)
              /\ "requests_total" \in DOMAIN collectors =>
                   \A k \in DOMAIN REQUESTS :
                     <<"requests_total", k, REQUESTS[k]>> \in exported'.value[1]
    ]_vars

\* two exports with a response counted in between: the last one returned
\* the response counter's line, and the request is no longer in progress
C24_Witness ==
  /\ ~exported.is_none
  /\ \E k \in DOMAIN RESPONSES : <<"responses_total", k, 1>> \in exported.value[1]
  /\ \E k \in DOMAIN REQUESTS_IN_PROGRESS :
       <<"requests_in_progress", k, 0>> \in exported.value[1]
  /\ calls[1].pc = "done"

\* C25: no sample of requests_in_progress is negative.
C25_InProgressNeverNegative ==
  \A k \in DOMAIN REQUESTS_IN_PROGRESS : REQUESTS_IN_PROGRESS[k] >= 0

\* the full label set of a call: the common label values its entry was
\* recorded with, its method and its path template
EntryLabels(call) ==
  call.entered_with.value @@ HttpLabels(call)

\* C26: the step that ends an observed call takes 1 off requests_in_progress
\* and adds 1 to responses_total, under one status code, for the full label
\* set (service, pod, method, path_template) its entry was recorded with.
C26_SameLabelsOnTheWayOut ==
  [][\A r \in CallIds :
       (Finishes(r) /\ calls[r].observed) =>
         /\ get_sample_value(REQUESTS_IN_PROGRESS', EntryLabels(calls[r])) =
              get_sample_value(REQUESTS_IN_PROGRESS, EntryLabels(calls[r])) - 1
         /\ \E s \in StatusLabels :
              LET k == EntryLabels(calls[r]) @@ [status_code |-> s]
              IN get_sample_value(RESPONSES', k) = get_sample_value(RESPONSES, k) + 1
    ]_vars

\* C27: whether a call is observed is settled by the step it enters with,
\* the step that counts the request, and stays as it is while the call is
\* in flight.  No step of a call that entered unobserved changes the
\* response counter, the histogram or the gauge; the step that ends a call
\* that entered observed adds 1 to responses_total and takes 1 off
\* requests_in_progress of its (method, path_template), whatever the flag
\* and the route sets are by then.
C27_ObservationDecidedAtEntry ==
  [][\A r \in CallIds :
       /\ Enters(r) =>
            (calls'[r].observed <=>
               Total(REQUESTS', HttpLabels(calls'[r])) =
                 Total(REQUESTS, HttpLabels(calls'[r])) + 1)
       /\ (calls[r].pc = "call_next" /\ calls'[r].pc = "call_next") =>
            calls'[r].observed = calls[r].observed
       /\ (calls[r].pc = "call_next" /\ ~calls[r].observed /\ calls'[r] # calls[r]) =>
            /\ RESPONSES' = RESPONSES
            /\ REQUESTS_PROCESSING_TIME' = REQUESTS_PROCESSING_TIME
            /\ REQUESTS_IN_PROGRESS' = REQUESTS_IN_PROGRESS
       /\ (Finishes(r) /\ calls[r].observed) =>
            /\ ChangesOnlyAt(RESPONSES, RESPONSES', HttpLabels(calls[r]), 1)
            /\ ChangesOnlyAt(REQUESTS_IN_PROGRESS, REQUESTS_IN_PROGRESS',
                             HttpLabels(calls[r]), -1)
    ]_vars

\* a call that entered observed was counted on its way out; another, to a
\* handled route, entered unobserved and left no trace, with metrics enabled
\* and no route filtered by the time it ended
C27_Witness ==
  /\ calls[1].pc = "done" /\ calls[1].observed
  /\ calls[2].pc = "done" /\ ~calls[2].observed
  /\ calls[2].path_template = "/one"
  /\ enable_metrics /\ include_routes = None /\ exclude_routes = None
  /\ Total(RESPONSES, HttpLabels(calls[1])) = 1
  /\ Total(RESPONSES, HttpLabels(calls[2])) = 0
  /\ Total(REQUESTS, HttpLabels(calls[2])) = 0

\* the observed calls that are in the application
InFlight(l) ==
  {r \in CallIds : calls[r].pc = "call_next" /\ calls[r].observed
                     /\ HttpLabels(calls[r]) = l}

\* C28: with no stop since the start and the common label values as the
\* start set them, for every (method, path_template): requests_total is
\* responses_total over all status codes plus requests_in_progress, and
\* requests_in_progress is the number of observed calls that are in the
\* application.
C28_RequestsBalance ==
  \A l \in HttpLabelSets :
    /\ Total(REQUESTS, l) = Total(RESPONSES, l) + Total(REQUESTS_IN_PROGRESS, l)
    /\ Total(REQUESTS_IN_PROGRESS, l) = Cardinality(InFlight(l))

\* two observed requests to one route, one answered and one still in the
\* application
C28_Witness ==
  \E l \in HttpLabelSets :
    /\ Total(REQUESTS, l) = 2
    /\ Total(RESPONSES, l) = 1
    /\ Cardinality(InFlight(l)) = 1

\* C29: the one request served adds at most 1 to requests_total.
C29_NoDoubleCounting ==
  SumOver(REQUESTS, DOMAIN REQUESTS) <= 1

\* C30: a start that raises an error leaves the enabled flag, the common
\* label values, the route filter sets and the exporter task handle as they
\* were before the call.
C30_FailedStartLeavesContext ==
  [][\A out_file_path \in FilePaths, enabled \in BOOLEAN, write_to_file \in BOOLEAN :
       (StartCall(out_file_path, enabled, write_to_file) /\ last_error' # "") =>
         UNCHANGED <<enable_metrics, COMMON_LABELS_VALUES, include_routes,
                     exclude_routes, write_to_file_task>>
    ]_vars

\* C31: a start of the first generation with enabled false raises nothing
\* and creates no exporter task, whatever write_to_file and the file path
\* are; after it the enabled flag is false and the exporter task handle is
\* what it was before the call.
C31_DisabledStartDoesNothing ==
  [][\A out_file_path \in FilePaths, write_to_file \in BOOLEAN :
       base_metrics_start_metrics("svc", "pod-1", out_file_path, FALSE, FALSE,
                                  write_to_file, None, None) =>
         /\ last_error' = ""
         /\ tasks' = tasks
         /\ write_to_file_task' = write_to_file_task
         /\ enable_metrics' = FALSE
    ]_vars

\* metrics were disabled by a start while the exporter started by an
\* earlier one is still referred to by the handle
C31_Witness ==
  /\ adapter = "base_metrics"
  /\ enable_metrics = FALSE
  /\ write_to_file_task # 0
  /\ last_error = ""

\* a call of start, of either generation, with the given name and id
StartAs(facility_name, facility_id) ==
  \E enabled \in BOOLEAN :
    \/ start_metrics(facility_name, facility_id, "", enabled, FALSE)
    \/ base_metrics_start_metrics(facility_name, facility_id, "", TRUE, enabled,
                                  FALSE, None, None)

\* C32: a start sets the service label to the name given, or leaves it as
\* it is when the name is empty, and sets the pod label to the instance id
\* given, or to the identifier of the host when the id is empty.  An
\* observed call counts its request, and then its response, in the sample
\* that carries the service and pod values current at that step.
C32_StartSetsCommonLabels ==
  [][/\ \A facility_name \in ServiceNames, facility_id \in InstanceIds :
          StartAs(facility_name, facility_id) =>
            /\ COMMON_LABELS_VALUES'.service =
                 (IF facility_name # "" THEN facility_name
                                        ELSE COMMON_LABELS_VALUES.service)
            /\ COMMON_LABELS_VALUES'.pod =
                 (IF facility_id # "" THEN facility_id ELSE INSTANCE_ID)
     /\ \A r \in CallIds :
          /\ (Enters(r) /\ calls'[r].observed) =>
               LET k == COMMON_LABELS_VALUES @@ HttpLabels(calls'[r])
               IN get_sample_value(REQUESTS', k) = get_sample_value(REQUESTS, k) + 1
          /\ (Finishes(r) /\ calls[r].observed) =>
               \E c \in StatusLabels :
                 LET k == COMMON_LABELS_VALUES @@ HttpLabels(calls[r])
                            @@ [status_code |-> c]
                 IN get_sample_value(RESPONSES', k) = get_sample_value(RESPONSES, k) + 1
    ]_vars

====
